---------------------------- MODULE Spec2Model ----------------------------
(***************************************************************************)
(* Verification model of svg-to-png (svg2raster): the CLI batch scheduler  *)
(* of executeCli, the desktop output-name allocator, createJobs, the       *)
(* render-option resolution, executeCli from entry to settlement, the      *)
(* desktop batch convertFiles, shutdownRenderer, deriveDimensions, the     *)
(* encoding step of render with convertPngBuffer, runCli's SIGINT          *)
(* handling, launchBrowser, the preset files, the desktop main process's   *)
(* convert and cancel handlers over several batches, sanitizeNameHint and  *)
(* sanitizeFileStem, normalizeInputs, and one BrowserRenderer under        *)
(* concurrent render() and close() calls.                                  *)
(*                                                                         *)
(* Optional values (TypeScript `T | undefined`) are modelled as sets:      *)
(* None is undefined, {v} is the defined value v.                          *)
(* Strings that the code inspects character by character are modelled as   *)
(* sequences of one-character strings.                                     *)
(***************************************************************************)
EXTENDS Integers, Sequences, FiniteSets, TLC

\* ------------------------------------------------------------------ bounds
MaxJobs == 5
MaxAborts == 2
MaxCalls == 3
MaxInputs == 2
MaxSetFields == 1
MaxDeskInputs == 3
MaxCallers == 3

\* ------------------------------------------------------- generic helpers
None == {}
Some(v) == {v}
IsDefined(x) == x # {}
ValueOf(x) == CHOOSE v \in x : TRUE

Min(a, b) == IF a < b THEN a ELSE b
Max(a, b) == IF a > b THEN a ELSE b

\* ------------------------------------------------------------------ state
VARIABLES
    \* --- executeCli scheduler (src/src/cli.ts) ---
    phase,            \* position of executeCli's own control flow
    jobCount,         \* jobs.length
    flagConcurrency,  \* flags.concurrency (optional)
    cpuCount,         \* os.cpus().length
    fails,            \* job indices whose processJob rejects
    signalAborted,    \* context.signal.aborted
    listening,        \* abortHandler is registered on the signal
    cancelled,        \* let cancelled
    nextIndex,        \* let nextIndex
    completed,        \* let completed
    failed,           \* let failed
    errors,           \* const errors (job indices, in push order)
    started,          \* number of worker() calls made by Array.from
    wpc,              \* per worker: "unstarted" | "running" | "returned"
    wjob,             \* per worker: the jobIndex it holds, or NoJob
    claims,           \* per job: how many times `jobs[jobIndex]` was taken
    jobStatus,        \* per job: Pending | Running | Succeeded | Failed
    progress,         \* processed positions printed by logJobSuccess/Failure
    notices,          \* number of 'Cancellation requested' lines logged
    cancelSets,       \* number of assignments `cancelled = true`
    abortCount,       \* number of abort dispatches so far
    claimedAtCancel,  \* jobs claimed when cancelled was set (-1 before)
    shutdownCalls,    \* number of shutdownRenderer() calls by executeCli
    shutdownFailed,   \* the promise of that shutdownRenderer() call rejected
    abortedUndrained, \* an abort was dispatched while a worker had not returned
    outcome,          \* how executeCli settled
    reported,         \* the count carried by the error message (-1: none)
    settlements,      \* number of times executeCli settled
    \* --- reserveOutputName (src/src/desktop/conversionUtils.ts) ---
    nameCounts,       \* the Map<string, number> shared by the calls
    hintLog,          \* the hints passed so far, in call order
    stemLog,          \* the stems returned so far, in call order
    \* --- executeCli input resolution and createJobs (src/src/cli.ts) ---
    jobsPhase,        \* "resolving" | "created" | "rejected"
    outFile,          \* flags.out (optional path)
    outDir,           \* flags.outDir (optional directory)
    jobFormat,        \* outputFormat handed to createJobs
    resolvedInputs,   \* const resolvedInputs
    jobs,             \* const jobs = createJobs(...)
    \* --- executeCli option resolution, mergeRenderOptions (src/src/cli.ts) ---
    optPhase,         \* "input" | "merged" | "resolved" | "rejected"
    cliFlags,         \* the render flags of CliFlags
    presetRequested,  \* flags.preset is given
    presetResult,     \* the options of the preset found (optional)
    mergeArgs,        \* arguments of a mergeRenderOptions call (optional)
    mergeResult,      \* its result (optional)
    renderOptions,    \* const renderOptions (optional until resolved)
    outputFormat,     \* const outputFormat (optional until resolved)
    \* --- desktop convertFiles (src/unnamed/part_003) and its UI ---
    deskPc,           \* position of the convert handler and convertFiles
    deskInputs,       \* request.inputs.length; input ids are 1..deskInputs
    deskCancelled,    \* conversion.cancelled
    deskIndex,        \* position of the loop in request.inputs (1-based)
    deskSuccesses,    \* let successes
    deskFailures,     \* const failures (input ids, in push order)
    deskEvents,       \* what was sent to the window, in send order
    deskDelivered,    \* how many of these events the UI has handled
    uiStatus,         \* per input id: the status of its JobState in the UI
    uiCompletions,    \* the complete events the UI has handled
    deskError,        \* the error convertFiles rejected with ("none": none)
    deskFormat,       \* request.options.format as the UI's format list sends it
    deskOutputs,      \* per rendered input: its format, the extension and the stem chosen
    deskHints,        \* per input: its nameHint
    deskNameCounts,   \* convertFiles' nameCounts
    \* --- shutdownRenderer (src/src/presets.ts, browserRenderer.ts) ---
    sharedRenderer,   \* let sharedRenderer: "null" | "renderer"
    browserPromise,   \* the renderer's browserPromise: "undefined" | "set"
    launch,           \* the launch it stands for: none | pending | launched | failed
    browserState,     \* the Chromium browser: "none" | "open" | "closed"
    browserCloseCalls,\* number of browser.close() calls
    callerPc,         \* per caller of shutdownRenderer: its position
    callerPath,       \* per caller: "none" | "noop" | "closing"
    callerFailed,     \* callers whose shutdownRenderer() promise rejected
    \* --- deriveDimensions (src/src/utils/svg.ts) ---
    dimPhase,         \* "off" | "input" | "derived" | "failed"
    dimMarkup,        \* the markup around the attributes, as a sequence of pieces
    dimSvg,           \* the width, height and viewBox attributes written in it
    dimOverrides,     \* overrides.width, overrides.height (optional)
    dimResult,        \* the DerivedDimensions returned (optional)
    dimError,         \* the error deriveDimensions threw: "none" | "missingRoot"
    \* --- convertPngBuffer (src/src/utils/raster.ts), BrowserRenderer.render ---
    rasterPc,         \* "off" | "render" | "page" | "encode" | "convert" | "returned" | "threw"
    rasterCall,       \* the call: who calls convertPngBuffer, format, background, PNG
    pngScreenshot,    \* the PNG buffer handed to the encoder (optional)
    rasterBuffer,     \* the buffer returned (optional)
    rasterError,      \* the error thrown (optional)
    \* --- runCli's SIGINT handling (src/src/cli.ts) ---
    sigintCount,      \* runCli's sigintCount
    sigintHandler,    \* handleSigint is registered on process
    exitCode,         \* the code process.exit was called with (optional)
    \* --- BrowserRenderer.launchBrowser (src/src/renderer/browserRenderer.ts) ---
    lbPc,             \* "off" | "idle" | "launching" | "installing" | "resolved" | "rejected"
    forceConstrained, \* SVG2RASTER_FORCE_MINIMAL_CHROMIUM === '1'
    executablePath,   \* the executable launched: "bundled" | "custom"
    chromiumPresent,  \* the executables that are on the disk
    attemptIndex,     \* position of candidateArgs in attemptArgsList
    installAttempted, \* launchBrowser's installAttempted
    lastError,        \* launchBrowser's lastError (optional)
    lbLog,            \* launches and installs of the current call, in order
    lbCalls,          \* number of launchBrowser calls so far
    \* --- the preset files (src/src/presets.ts) ---
    presetFiles,      \* per candidate path: the file's content (optional)
    presetRef,        \* the reference map: the entries saved and not deleted
    presetOps,        \* number of savePresetEntry / deletePresetEntry calls so far
    loadCall,         \* the latest load call (optional)
    loadResult,       \* what the latest load call settled with (optional)
    \* --- the desktop main process's convert and cancel handlers ---
    activeConversion, \* the batch whose context it refers to, or NoBatch for null
    convPc,           \* per batch: "none" | "mkdir" | "rendering" | "writing" |
                      \*            "shutdown" | "resolved" | "rejected"
    convInputs,       \* per batch: number of inputs of the normalized request
    convCancelled,    \* per batch: its ConversionContext's cancelled flag
    convIndex,        \* per batch: position of the for loop
    convEvents,       \* per batch: the events sent to the window, in order
    convError,        \* per batch: what the convert call rejected with
    cancelMark,       \* per batch: number of events it had sent when a cancel
                      \* request first arrived while it was running (optional)
    \* --- sanitizeNameHint (conversionUtils.ts), sanitizeFileStem (cli.ts) ---
    sanPc,            \* "off" | "input" | "done"
    sanValue,         \* the string handed to both functions
    sanFallback,      \* the fallback handed to both functions
    sanNameHint,      \* what sanitizeNameHint returned (optional)
    sanFileStem,      \* what sanitizeFileStem returned (optional)
    \* --- normalizeInputs (src/src/desktop/conversionUtils.ts) ---
    normPc,           \* "off" | "input" | "done"
    normInputs,       \* the inputs handed to normalizeInputs
    normalized,       \* the list it returned
    \* --- one BrowserRenderer under concurrent render() and close() calls ---
    memoLaunch,       \* this.browserPromise: the launch it stands for, or NoLaunch
    launches,         \* per launchBrowser() call: "pending" | "open" | "failed" | "closed"
    renderCalls,      \* per render() call: its position and the launch it awaits
    closeCalls        \* per close() call: its position and the launch it awaits

schedVars == <<phase, jobCount, flagConcurrency, cpuCount, fails, signalAborted,
               listening, cancelled, nextIndex, completed, failed, errors,
               started, wpc, wjob, claims, jobStatus, progress, notices,
               cancelSets, abortCount, claimedAtCancel, shutdownCalls,
               shutdownFailed, abortedUndrained, outcome, reported, settlements>>

nameVars == <<nameCounts, hintLog, stemLog>>

jobVars == <<jobsPhase, outFile, outDir, jobFormat, resolvedInputs, jobs>>

optVars == <<optPhase, cliFlags, presetRequested, presetResult, mergeArgs,
             mergeResult, renderOptions, outputFormat>>

deskVars == <<deskPc, deskInputs, deskCancelled, deskIndex, deskSuccesses,
              deskFailures, deskEvents, deskDelivered, uiStatus, uiCompletions,
              deskError, deskFormat, deskOutputs, deskHints, deskNameCounts>>

shutVars == <<sharedRenderer, browserPromise, launch, browserState,
              browserCloseCalls, callerPc, callerPath, callerFailed>>

dimVars == <<dimPhase, dimMarkup, dimSvg, dimOverrides, dimResult, dimError>>

rasterVars == <<rasterPc, rasterCall, pngScreenshot, rasterBuffer, rasterError>>

sigVars == <<sigintCount, sigintHandler, exitCode>>

launchVars == <<lbPc, forceConstrained, executablePath, chromiumPresent, attemptIndex,
                installAttempted, lastError, lbLog, lbCalls>>

presetVars == <<presetFiles, presetRef, presetOps, loadCall, loadResult>>

convVars == <<activeConversion, convPc, convInputs, convCancelled, convIndex,
              convEvents, convError, cancelMark>>

sanVars == <<sanPc, sanValue, sanFallback, sanNameHint, sanFileStem>>

normVars == <<normPc, normInputs, normalized>>

poolVars == <<memoLaunch, launches, renderCalls, closeCalls>>

moreVars == <<convVars, sanVars, normVars, poolVars>>

toolVars == <<rasterVars, sigVars, launchVars, presetVars, moreVars>>

vars == <<schedVars, nameVars, jobVars, optVars, deskVars, shutVars, dimVars, toolVars>>

\* What the steps of each component leave alone.
nonSchedVars == <<nameVars, jobVars, optVars, deskVars, shutVars, dimVars, toolVars>>
nonNameVars == <<schedVars, jobVars, optVars, deskVars, shutVars, dimVars, toolVars>>
nonJobVars == <<schedVars, nameVars, optVars, deskVars, shutVars, dimVars, toolVars>>
nonOptVars == <<schedVars, nameVars, jobVars, deskVars, shutVars, dimVars, toolVars>>
nonDeskVars == <<schedVars, nameVars, jobVars, optVars, shutVars, dimVars, toolVars>>
nonShutVars == <<schedVars, nameVars, jobVars, optVars, deskVars, dimVars, toolVars>>
nonDimVars == <<schedVars, nameVars, jobVars, optVars, deskVars, shutVars, toolVars>>
nonRasterVars == <<schedVars, nameVars, jobVars, optVars, deskVars, shutVars, dimVars,
                   sigVars, launchVars, presetVars, moreVars>>
nonSigVars == <<schedVars, nameVars, jobVars, optVars, deskVars, shutVars, dimVars,
                rasterVars, launchVars, presetVars, moreVars>>
nonRunVars == <<nameVars, jobVars, optVars, deskVars, shutVars, dimVars, rasterVars,
                launchVars, presetVars, moreVars>>
nonLaunchVars == <<schedVars, nameVars, jobVars, optVars, deskVars, shutVars, dimVars,
                   rasterVars, sigVars, presetVars, moreVars>>
nonConvVars == <<schedVars, nameVars, jobVars, optVars, deskVars, shutVars, dimVars,
                 rasterVars, sigVars, launchVars, presetVars, sanVars, normVars,
                 poolVars>>
nonSanVars == <<schedVars, nameVars, jobVars, optVars, deskVars, shutVars, dimVars,
                rasterVars, sigVars, launchVars, presetVars, convVars, normVars,
                poolVars>>
nonNormVars == <<schedVars, nameVars, jobVars, optVars, deskVars, shutVars, dimVars,
                 rasterVars, sigVars, launchVars, presetVars, convVars, sanVars,
                 poolVars>>
nonPoolVars == <<schedVars, nameVars, jobVars, optVars, deskVars, shutVars, dimVars,
                 rasterVars, sigVars, launchVars, presetVars, convVars, sanVars,
                 normVars>>
nonPresetVars == <<schedVars, nameVars, jobVars, optVars, deskVars, shutVars, dimVars,
                   rasterVars, sigVars, launchVars, moreVars>>

\* ============================================================ executeCli
NoJob == -1
HardCeiling == 32
FallbackCpuCount == 4
MaxDefaultConcurrency == 4

ConcurrencyFlags == {None, Some(0), Some(1), Some(2), Some(3), Some(40)}
CpuCounts == {None, Some(1), Some(8)}

\* const DEFAULT_CONCURRENCY = Math.max(1, Math.min(os.cpus()?.length ?? 4, 4))
DEFAULT_CONCURRENCY(cpus) ==
    Max(1, Min(IF IsDefined(cpus) THEN ValueOf(cpus) ELSE FallbackCpuCount,
               MaxDefaultConcurrency))

\* Math.max(1, Math.min(flags.concurrency ?? DEFAULT_CONCURRENCY, 32))
Concurrency(flag, cpus) ==
    Max(1, Min(IF IsDefined(flag) THEN ValueOf(flag) ELSE DEFAULT_CONCURRENCY(cpus),
               HardCeiling))

WorkerCount_all(concurrency, len) == len
\* Array.from({ length: Math.min(concurrency, jobs.length) }, ...)
WorkerCount(concurrency, len) == Min(concurrency, len)

Workers == 1..WorkerCount(Concurrency(flagConcurrency, cpuCount), jobCount)
Jobs == 0..(jobCount - 1)

NextCursor_rewind(i) == IF i = 1 THEN 0 ELSE i + 1
NextCursor_stuck(i) == i
\* nextIndex++
NextCursor(i) == i + 1

ShouldStop_never(c) == FALSE
\* if (cancelled) { return; }
ShouldStop(c) == c

CompletedAfter_lost(ok, c) == c
\* completed += 1 (try branch)
CompletedAfter(ok, c) == IF ok THEN c + 1 ELSE c

FailedAfter_lost(ok, f) == f
\* failed += 1 (catch branch)
FailedAfter(ok, f) == IF ok THEN f ELSE f + 1

ProcessedPosition_completedOnly(c, f) == c
\* the `completed + failed` argument of logJobSuccess / logJobFailure
ProcessedPosition(c, f) == c + f

NoticesAfterAbort_unguarded(c, k) == k + 1
\* abortHandler: if (!cancelled) { cancelled = true; logger.info(...) }
NoticesAfterAbort(c, k) == IF ~c THEN k + 1 ELSE k

AllReturned == \A w \in Workers : wpc[w] = "returned"
InFlight == {j \in Jobs : jobStatus[j] = "Running"}
ClaimedJobs == {j \in Jobs : claims[j] > 0}

InitSched ==
    /\ phase = "entry"
    /\ jobCount \in 1..MaxJobs
    /\ flagConcurrency \in ConcurrencyFlags
    /\ cpuCount \in (IF flagConcurrency = None THEN CpuCounts ELSE {Some(8)})
    /\ fails \in SUBSET (0..(jobCount - 1))
    /\ signalAborted \in BOOLEAN
    /\ listening = FALSE
    /\ cancelled = FALSE
    /\ nextIndex = 0
    /\ completed = 0
    /\ failed = 0
    /\ errors = <<>>
    /\ started = 0
    /\ wpc = [w \in 1..WorkerCount(Concurrency(flagConcurrency, cpuCount), jobCount)
                 |-> "unstarted"]
    /\ wjob = [w \in 1..WorkerCount(Concurrency(flagConcurrency, cpuCount), jobCount)
                 |-> NoJob]
    /\ claims = [j \in 0..(jobCount - 1) |-> 0]
    /\ jobStatus = [j \in 0..(jobCount - 1) |-> "Pending"]
    /\ progress = <<>>
    /\ notices = 0
    /\ cancelSets = 0
    /\ abortCount = 0
    /\ claimedAtCancel = -1
    /\ shutdownCalls = 0
    /\ shutdownFailed = FALSE
    /\ abortedUndrained = FALSE
    /\ outcome = "pending"
    /\ reported = -1
    /\ settlements = 0

\* The catch branch forgets the failure (not in the code)
ErrorsAfter_dropped(ok, list, j) == list
\* errors.push({ job, error }) in the catch branch
ErrorsAfter(ok, list, j) == IF ok THEN list ELSE Append(list, j)

\* The head of worker()'s loop, run by worker w on the job statuses st:
\* the cancellation check, the claim `nextIndex++`, the bounds check and the
\* call of processJob up to its first suspension.
LoopHead(w, st) ==
    LET stop  == ShouldStop(cancelled)
        idx   == nextIndex
        takes == ~stop /\ idx < jobCount
    IN  /\ nextIndex' = IF stop THEN nextIndex ELSE NextCursor(nextIndex)
        /\ wpc' = [wpc EXCEPT ![w] = IF takes THEN "running" ELSE "returned"]
        /\ wjob' = [wjob EXCEPT ![w] = IF takes THEN idx ELSE NoJob]
        /\ claims' = IF takes THEN [claims EXCEPT ![idx] = @ + 1] ELSE claims
        /\ jobStatus' = IF takes THEN [st EXCEPT ![idx] = "Running"] ELSE st

\* executeCli lines 295-314: the pre-start cancellation check, the
\* registration of abortHandler and the initialisation of the tally.
Schedule ==
    /\ phase = "entry"
    /\ IF signalAborted
         THEN /\ phase' = "settled"
              /\ outcome' = "cancelledBeforeStart"
              /\ settlements' = settlements + 1
              /\ UNCHANGED listening
         ELSE /\ phase' = "spawning"
              /\ listening' = TRUE
              /\ UNCHANGED <<outcome, settlements>>
    /\ UNCHANGED nonSchedVars
    /\ UNCHANGED <<jobCount, flagConcurrency, cpuCount, fails, signalAborted,
                   cancelled, nextIndex, completed, failed, errors, started,
                   wpc, wjob, claims, jobStatus, progress, notices, cancelSets,
                   abortCount, claimedAtCancel, abortedUndrained, shutdownCalls,
                   shutdownFailed, reported>>

\* Array.from(..., () => worker()): the w-th call of worker() runs
\* synchronously up to its first await; after the last one executeCli
\* suspends on Promise.all.
SpawnWorker(w) ==
    /\ phase = "spawning"
    /\ w = started + 1
    /\ w \in Workers
    /\ started' = w
    /\ LoopHead(w, jobStatus)
    /\ phase' = IF w = WorkerCount(Concurrency(flagConcurrency, cpuCount), jobCount)
                  THEN "awaiting" ELSE "spawning"
    /\ UNCHANGED nonSchedVars
    /\ UNCHANGED <<jobCount, flagConcurrency, cpuCount, fails, signalAborted,
                   listening, cancelled, completed, failed, errors, progress,
                   notices, cancelSets, abortCount, claimedAtCancel, abortedUndrained,
                   shutdownCalls, shutdownFailed, outcome, reported, settlements>>

\* worker w resumes after `await processJob(job, renderOptions)`: the try or
\* the catch branch updates the tally and logs, then the loop head runs again.
Resume(w) ==
    /\ phase = "awaiting"
    /\ w \in Workers
    /\ wpc[w] = "running"
    /\ LET j  == wjob[w]
           ok == j \notin fails
           c2 == CompletedAfter(ok, completed)
           f2 == FailedAfter(ok, failed)
       IN  /\ completed' = c2
           /\ failed' = f2
           /\ progress' = Append(progress, ProcessedPosition(c2, f2))
           /\ errors' = ErrorsAfter(ok, errors, j)
           /\ LoopHead(w, [jobStatus EXCEPT ![j] = IF ok THEN "Succeeded" ELSE "Failed"])
    /\ UNCHANGED nonSchedVars
    /\ UNCHANGED <<phase, jobCount, flagConcurrency, cpuCount, fails,
                   signalAborted, listening, cancelled, started, notices,
                   cancelSets, abortCount, claimedAtCancel, abortedUndrained,
                   shutdownCalls, shutdownFailed,
                   outcome, reported, settlements>>

\* The signal is aborted and dispatches 'abort'; abortHandler runs when it is
\* registered.
AbortDispatch ==
    /\ abortCount' = abortCount + 1
    /\ abortedUndrained' = (abortedUndrained \/ (phase = "awaiting" /\ ~AllReturned))
    /\ signalAborted' = TRUE
    /\ IF listening
         THEN /\ cancelled' = TRUE
              /\ cancelSets' = IF ~cancelled THEN cancelSets + 1 ELSE cancelSets
              /\ notices' = NoticesAfterAbort(cancelled, notices)
              /\ claimedAtCancel' = IF ~cancelled THEN Cardinality(ClaimedJobs)
                                    ELSE claimedAtCancel
         ELSE UNCHANGED <<cancelled, cancelSets, notices, claimedAtCancel>>

\* The caller of executeCli aborts context.signal.
Abort ==
    /\ phase \in {"awaiting", "shutdown"}
    /\ abortCount < MaxAborts
    /\ AbortDispatch
    /\ UNCHANGED nonSchedVars
    /\ UNCHANGED <<phase, jobCount, flagConcurrency, cpuCount, fails, listening,
                   nextIndex, completed, failed, errors, started, wpc, wjob,
                   claims, jobStatus, progress, shutdownCalls, shutdownFailed, outcome,
                   reported, settlements>>

\* Promise.all(workers) resolves; the finally block removes the listener and
\* calls shutdownRenderer(), on which executeCli suspends.
Finally ==
    /\ phase = "awaiting"
    /\ AllReturned
    /\ phase' = "shutdown"
    /\ listening' = FALSE
    /\ shutdownCalls' = shutdownCalls + 1
    /\ UNCHANGED shutdownFailed
    /\ UNCHANGED nonSchedVars
    /\ UNCHANGED <<jobCount, flagConcurrency, cpuCount, fails, signalAborted,
                   cancelled, nextIndex, completed, failed, errors, started,
                   wpc, wjob, claims, jobStatus, progress, notices, cancelSets,
                   abortCount, claimedAtCancel, abortedUndrained, outcome, reported, settlements>>

\* What executeCli settles with after `await shutdownRenderer().catch(() =>
\* undefined)`: the cancellation error, else the failure error, else the
\* summary line. Two variants that are not in the code: the failure error
\* checked first, and a shutdown failure left uncaught.
SettledOutcome_errorsFirst(isCancelled, errorCount, shutdownOk) ==
    IF errorCount > 0 THEN "jobsFailed"
    ELSE IF isCancelled THEN "cancelled"
    ELSE "converted"
SettledOutcome_uncaught(isCancelled, errorCount, shutdownOk) ==
    IF ~shutdownOk THEN "shutdownFailed"
    ELSE IF isCancelled THEN "cancelled"
    ELSE IF errorCount > 0 THEN "jobsFailed"
    ELSE "converted"
SettledOutcome(isCancelled, errorCount, shutdownOk) ==
    IF isCancelled THEN "cancelled"
    ELSE IF errorCount > 0 THEN "jobsFailed"
    ELSE "converted"

\* executeCli lines 344-363: shutdownRenderer() settles, a rejection being
\* swallowed; then the cancellation error, the failure error or the summary
\* line.
Settle(ok) ==
    /\ phase = "shutdown"
    /\ phase' = "settled"
    /\ settlements' = settlements + 1
    /\ shutdownFailed' = ~ok
    /\ outcome' = SettledOutcome(cancelled, Len(errors), ok)
    /\ reported' = IF outcome' = "cancelled" THEN completed + failed
                   ELSE IF outcome' = "jobsFailed" THEN Len(errors)
                   ELSE IF outcome' = "converted" THEN completed
                   ELSE reported
    /\ UNCHANGED nonSchedVars
    /\ UNCHANGED <<jobCount, flagConcurrency, cpuCount, fails, signalAborted,
                   listening, cancelled, nextIndex, completed, failed, errors,
                   started, wpc, wjob, claims, jobStatus, progress, notices,
                   cancelSets, abortCount, claimedAtCancel, abortedUndrained,
                   shutdownCalls>>

NextSched ==
    \/ Schedule
    \/ \E w \in Workers : SpawnWorker(w)
    \/ \E w \in Workers : Resume(w)
    \/ Abort
    \/ Finally
    \/ \E ok \in BOOLEAN : Settle(ok)

\* The name allocator before its first call: an empty map.
NamesIdle ==
    /\ nameCounts = <<>>
    /\ hintLog = <<>>
    /\ stemLog = <<>>

\* Input resolution when it is not the part under study.
JobsIdle ==
    /\ jobsPhase = "off"
    /\ outFile = None
    /\ outDir = None
    /\ jobFormat = "png"
    /\ resolvedInputs = <<>>
    /\ jobs = <<>>

\* Option resolution when it is not the part under study.
OptionsIdle ==
    /\ optPhase = "off"
    /\ cliFlags = <<>>
    /\ presetRequested = FALSE
    /\ presetResult = None
    /\ mergeArgs = None
    /\ mergeResult = None
    /\ renderOptions = None
    /\ outputFormat = None

\* The desktop batch when it is not the part under study.
DeskIdle ==
    /\ deskPc = "off"
    /\ deskInputs = 0
    /\ deskCancelled = FALSE
    /\ deskIndex = 0
    /\ deskSuccesses = 0
    /\ deskFailures = <<>>
    /\ deskEvents = <<>>
    /\ deskDelivered = 0
    /\ uiStatus = <<>>
    /\ uiCompletions = <<>>
    /\ deskError = "none"
    /\ deskFormat = "png"
    /\ deskOutputs = <<>>
    /\ deskHints = <<>>
    /\ deskNameCounts = <<>>

\* The shared renderer when it is not the part under study.
ShutIdle ==
    /\ sharedRenderer = "null"
    /\ browserPromise = "undefined"
    /\ launch = "none"
    /\ browserState = "none"
    /\ browserCloseCalls = 0
    /\ callerPc = <<>>
    /\ callerPath = <<>>
    /\ callerFailed = {}

\* deriveDimensions when it is not the part under study.
DimsIdle ==
    /\ dimPhase = "off"
    /\ dimMarkup = <<>>
    /\ dimSvg = <<>>
    /\ dimOverrides = <<>>
    /\ dimResult = None
    /\ dimError = "none"

\* render and convertPngBuffer when they are not the part under study.
RasterIdle ==
    /\ rasterPc = "off"
    /\ rasterCall = <<>>
    /\ pngScreenshot = None
    /\ rasterBuffer = None
    /\ rasterError = None

\* No runCli around executeCli: no SIGINT handler of the program.
SigIdle ==
    /\ sigintCount = 0
    /\ sigintHandler = FALSE
    /\ exitCode = None

\* launchBrowser when it is not the part under study.
LaunchIdle ==
    /\ lbPc = "off"
    /\ forceConstrained = FALSE
    /\ executablePath = "bundled"
    /\ chromiumPresent = {}
    /\ attemptIndex = 0
    /\ installAttempted = FALSE
    /\ lastError = None
    /\ lbLog = <<>>
    /\ lbCalls = 0

\* The preset files when they are not the part under study.
PresetsIdle ==
    /\ presetFiles = <<>>
    /\ presetRef = {}
    /\ presetOps = 0
    /\ loadCall = None
    /\ loadResult = None

\* activeConversion = null
NoBatch == 0

\* The desktop main process's handlers when they are not the part under study.
ConvIdle ==
    /\ activeConversion = NoBatch
    /\ convPc = <<>>
    /\ convInputs = <<>>
    /\ convCancelled = <<>>
    /\ convIndex = <<>>
    /\ convEvents = <<>>
    /\ convError = <<>>
    /\ cancelMark = <<>>

\* The sanitizers when they are not the part under study.
SanIdle ==
    /\ sanPc = "off"
    /\ sanValue = <<>>
    /\ sanFallback = <<>>
    /\ sanNameHint = None
    /\ sanFileStem = None

\* normalizeInputs when it is not the part under study.
NormIdle ==
    /\ normPc = "off"
    /\ normInputs = <<>>
    /\ normalized = <<>>

\* this.browserPromise === undefined
NoLaunch == 0

\* The BrowserRenderer under concurrent calls when it is not the part under
\* study.
PoolIdle ==
    /\ memoLaunch = NoLaunch
    /\ launches = <<>>
    /\ renderCalls = <<>>
    /\ closeCalls = <<>>

MoreIdle == ConvIdle /\ SanIdle /\ NormIdle /\ PoolIdle

ToolsIdle == RasterIdle /\ SigIdle /\ LaunchIdle /\ PresetsIdle /\ MoreIdle

\* The parts outside the command line's executeCli.
LibraryIdle == DeskIdle /\ ShutIdle /\ DimsIdle /\ ToolsIdle

Init == InitSched /\ NamesIdle /\ JobsIdle /\ OptionsIdle /\ LibraryIdle
Next == NextSched
Spec == Init /\ [][Next]_vars

\* ------------------------------------------------- claims on executeCli
ProcessedCount == completed + failed
SettledStatus == {"Succeeded", "Failed"}

\* The requested concurrency as the documentation describes it: the flag, or
\* the default when the flag is absent, forced into 1..32.
RequestedClamped ==
    LET c == IF flagConcurrency = None THEN DEFAULT_CONCURRENCY(cpuCount)
             ELSE ValueOf(flagConcurrency)
    IN  IF c < 1 THEN 1 ELSE IF c > 32 THEN 32 ELSE c

\* C1: with no cancellation, once every worker has returned all n jobs are
\* settled, completed + failed = n, exactly the failing jobs are Failed, and
\* while jobs remain unclaimed no worker has stopped (a failure aborts nothing).
C1_FailureDoesNotAbort ==
    /\ (AllReturned /\ ~cancelled) =>
          /\ \A j \in Jobs : jobStatus[j] \in SettledStatus
          /\ \A j \in Jobs : (jobStatus[j] = "Failed") <=> (j \in fails)
          /\ ProcessedCount = jobCount
          /\ failed = Cardinality(fails)
          /\ completed = jobCount - Cardinality(fails)
    /\ (phase = "awaiting" /\ ~cancelled /\ nextIndex < jobCount) =>
          \A w \in Workers : wpc[w] = "running"

\* C1 witness: concurrency 2, five jobs, job #3 fails: tally 4 / 1.
C1_Witness ==
    /\ phase = "settled"
    /\ jobCount = 5
    /\ flagConcurrency = Some(2)
    /\ fails = {2}
    /\ ~cancelled
    /\ completed = 4
    /\ failed = 1

\* C2: the number of jobs claimed and not yet settled never exceeds
\* min(C, n), C being the requested concurrency clamped into 1..32.
C2_BoundedInFlight ==
    /\ Cardinality(InFlight) <= Min(RequestedClamped, jobCount)
    /\ Cardinality(ClaimedJobs) - ProcessedCount <= Min(RequestedClamped, jobCount)

\* C2 witness: the bound is attained below the job count.
C2_Witness ==
    /\ flagConcurrency = Some(2)
    /\ jobCount = 4
    /\ Cardinality(InFlight) = 2
    /\ ProcessedCount = 1

\* C3 (state part): executeCli leaves Promise.all only when every worker has
\* returned and no claimed job is still running; the flag is set and the
\* notice logged at most once.
C3_State ==
    /\ phase \in {"shutdown", "settled"} /\ outcome # "cancelledBeforeStart" =>
          AllReturned /\ InFlight = {}
    /\ cancelSets <= 1
    /\ notices <= 1
    /\ cancelled <=> (cancelSets = 1)

\* C3 (step part): once cancelled, no step claims a job; a running job only
\* ever becomes Succeeded or Failed, and a settled job stays as it is.
C3_Step ==
    /\ cancelled => /\ cancelled'
                    /\ nextIndex' = nextIndex
                    /\ claims' = claims
    /\ \A j \in Jobs :
          /\ jobStatus[j] = "Running" => jobStatus'[j] \in {"Running"} \cup SettledStatus
          /\ jobStatus[j] \in SettledStatus => jobStatus'[j] = jobStatus[j]

\* C3: after the abort signal fired no worker claims another job, claimed
\* jobs run to a settled outcome, executeCli settles only after the workers
\* returned, and the flag and the notice happen at most once per batch.
C3_CooperativeCancel == []C3_State /\ [][C3_Step]_vars

\* C3 witness: abort signalled twice, unclaimed jobs dropped, batch settled.
C3_Witness ==
    /\ phase = "settled"
    /\ cancelled
    /\ abortCount = 2
    /\ notices = 1
    /\ Cardinality(ClaimedJobs) < jobCount
    /\ ProcessedCount = Cardinality(ClaimedJobs)

\* C4: every job index is claimed by at most one worker, and without
\* cancellation every index 0..n-1 is claimed exactly once.
C4_ClaimedOnce ==
    /\ \A j \in Jobs : claims[j] <= 1
    /\ \A v, w \in Workers :
          (v # w /\ wpc[v] = "running" /\ wpc[w] = "running") => wjob[v] # wjob[w]
    /\ (AllReturned /\ ~cancelled) => \A j \in Jobs : claims[j] = 1

\* C4 witness: three workers have drained four jobs between them.
C4_Witness ==
    /\ AllReturned
    /\ ~cancelled
    /\ jobCount = 4
    /\ flagConcurrency = Some(3)
    /\ \A j \in Jobs : claims[j] = 1

\* C5: a batch cancelled after k claims rejects once, after the workers have
\* drained, with a count p = completed + failed, k <= p <= n, and no claimed
\* job is left running.
C5_CancelReport ==
    /\ (phase = "settled" /\ cancelled) =>
          /\ outcome = "cancelled"
          /\ settlements = 1
          /\ AllReturned
          /\ reported = ProcessedCount
          /\ claimedAtCancel <= reported
          /\ reported <= jobCount
          /\ \A j \in ClaimedJobs : jobStatus[j] \in SettledStatus
          /\ \A j \in Jobs \ ClaimedJobs : jobStatus[j] = "Pending"
    /\ outcome = "cancelled" => phase = "settled" /\ cancelled
    /\ phase # "settled" => outcome = "pending" /\ settlements = 0

\* C5 witness: cancelled after 2 of 5 jobs were claimed.
C5_Witness ==
    /\ outcome = "cancelled"
    /\ jobCount = 5
    /\ claimedAtCancel = 2
    /\ reported = 2

\* C12: the tally loses and double-counts nothing.  In every state completed
\* is the number of Succeeded jobs and failed the number of Failed jobs (so
\* completed + failed is the number of settled jobs), errors holds each Failed
\* job once, and the processed positions logged so far are 1, 2, ..., p in
\* this order; every step that settles a job adds one to exactly one of the
\* two counters and no other step changes them.
SettledJobs == {j \in Jobs : jobStatus[j] \in SettledStatus}
C12_TallyState ==
    /\ completed = Cardinality({j \in Jobs : jobStatus[j] = "Succeeded"})
    /\ failed = Cardinality({j \in Jobs : jobStatus[j] = "Failed"})
    /\ ProcessedCount = Cardinality(SettledJobs)
    /\ Len(errors) = failed
    /\ \A a, b \in 1..Len(errors) : errors[a] = errors[b] => a = b
    /\ \A a \in 1..Len(errors) : errors[a] \in Jobs /\ jobStatus[errors[a]] = "Failed"
    /\ Len(progress) = ProcessedCount
    /\ \A i \in 1..Len(progress) : progress[i] = i
C12_TallyStep ==
    LET newly == {j \in Jobs : jobStatus'[j] \in SettledStatus
                               /\ jobStatus[j] \notin SettledStatus}
    IN  /\ Cardinality(newly) <= 1
        /\ \A j \in Jobs : jobStatus[j] \in SettledStatus => jobStatus'[j] = jobStatus[j]
        /\ completed' + failed' = completed + failed + Cardinality(newly)
        /\ completed' >= completed
        /\ failed' >= failed
        /\ \A j \in newly : /\ jobStatus[j] = "Running"
                             /\ (jobStatus'[j] = "Succeeded") <=> (completed' = completed + 1)
C12_TallyExact == []C12_TallyState /\ [][C12_TallyStep]_vars

\* C12 witness: three workers settled five jobs, two of them failed, and the
\* five progress lines carry the positions 1..5.
C12_Witness ==
    /\ jobCount = 5
    /\ Cardinality(Workers) = 3
    /\ completed = 3
    /\ failed = 2
    /\ progress = <<1, 2, 3, 4, 5>>

\* C15: jobs are claimed in list order.  Whenever a job is claimed, every job
\* claimed before it has a smaller index and every job with a smaller index
\* has been claimed before it (and is running or settled), whatever the
\* concurrency and the order in which the renders complete.
C15_ClaimStep ==
    \A j \in Jobs :
        claims'[j] > claims[j] =>
            /\ \A i \in ClaimedJobs : i < j
            /\ \A i \in Jobs : i < j => i \in ClaimedJobs /\ jobStatus[i] # "Pending"
            /\ jobStatus'[j] = "Running"
C15_ClaimOrderIsListOrder == [][C15_ClaimStep]_vars

\* C15 witness: job 3 is claimed while job 1, claimed earlier, still renders
\* and job 2, claimed after job 1, has already completed.
C15_Witness ==
    /\ jobCount >= 4
    /\ claims[3] = 1
    /\ jobStatus[1] = "Running"
    /\ jobStatus[2] \in SettledStatus
    /\ jobStatus[3] = "Running"

\* ===================================================== reserveOutputName
\* executeCli's scheduler when no batch runs (the other components' runs).
SchedIdle ==
    /\ phase = "off"
    /\ jobCount = 0
    /\ flagConcurrency = None
    /\ cpuCount = None
    /\ fails = {}
    /\ signalAborted = FALSE
    /\ listening = FALSE
    /\ cancelled = FALSE
    /\ nextIndex = 0
    /\ completed = 0
    /\ failed = 0
    /\ errors = <<>>
    /\ started = 0
    /\ wpc = <<>>
    /\ wjob = <<>>
    /\ claims = <<>>
    /\ jobStatus = <<>>
    /\ progress = <<>>
    /\ notices = 0
    /\ cancelSets = 0
    /\ abortCount = 0
    /\ claimedAtCancel = -1
    /\ shutdownCalls = 0
    /\ shutdownFailed = FALSE
    /\ abortedUndrained = FALSE
    /\ outcome = "pending"
    /\ reported = -1
    /\ settlements = 0

Letters == {"a", "b", "c", "d", "e", "f", "g", "i", "j", "l", "n", "o", "p",
            "r", "s", "t", "u", "v", "w", "y", "M", "I"}
DigitChars == <<"0", "1", "2", "3", "4", "5", "6", "7", "8", "9">>
Digits == {DigitChars[k] : k \in 1..10}
\* the character class [a-zA-Z0-9._-]
AllowedChars == Letters \cup Digits \cup {".", "_", "-"}
Whitespace == {" "}

\* String.prototype.trim
RECURSIVE TrimStart(_)
TrimStart(s) == IF s # <<>> /\ Head(s) \in Whitespace THEN TrimStart(Tail(s)) ELSE s
RECURSIVE TrimEnd(_)
TrimEnd(s) ==
    IF s # <<>> /\ s[Len(s)] \in Whitespace THEN TrimEnd(SubSeq(s, 1, Len(s) - 1)) ELSE s
Trim(s) == TrimEnd(TrimStart(s))

RECURSIVE SkipDisallowed(_)
SkipDisallowed(s) ==
    IF s # <<>> /\ Head(s) \notin AllowedChars THEN SkipDisallowed(Tail(s)) ELSE s

\* .replace(/[^a-zA-Z0-9._-]+/g, '-'): every maximal run of other characters
\* becomes one hyphen.
\* the same replacement without the + (not in the code): one hyphen for
\* every other character
RECURSIVE ReplaceRuns_perCharacter(_)
ReplaceRuns_perCharacter(s) ==
    IF s = <<>> THEN <<>>
    ELSE IF Head(s) \in AllowedChars THEN <<Head(s)>> \o ReplaceRuns_perCharacter(Tail(s))
    ELSE <<"-">> \o ReplaceRuns_perCharacter(Tail(s))
RECURSIVE ReplaceRuns(_)
ReplaceRuns(s) ==
    IF s = <<>> THEN <<>>
    ELSE IF Head(s) \in AllowedChars THEN <<Head(s)>> \o ReplaceRuns(Tail(s))
    ELSE <<"-">> \o ReplaceRuns(SkipDisallowed(Tail(s)))

RECURSIVE StripLeadingHyphens(_)
StripLeadingHyphens(s) ==
    IF s # <<>> /\ Head(s) = "-" THEN StripLeadingHyphens(Tail(s)) ELSE s
RECURSIVE StripTrailingHyphens(_)
StripTrailingHyphens(s) ==
    IF s # <<>> /\ s[Len(s)] = "-"
      THEN StripTrailingHyphens(SubSeq(s, 1, Len(s) - 1)) ELSE s
\* .replace(/^-+|-+$/g, '')
StripHyphens(s) == StripTrailingHyphens(StripLeadingHyphens(s))

\* sanitizeNameHint(value, fallback)
sanitizeNameHint(value, fallback) ==
    IF value = <<>> THEN fallback
    ELSE LET cleaned == StripHyphens(ReplaceRuns(Trim(value)))
         IN  IF cleaned = <<>> THEN fallback ELSE cleaned

\* `${n}` for a non-negative integer n
RECURSIVE ToDecimal(_)
ToDecimal(n) ==
    IF n < 10 THEN <<DigitChars[n + 1]>>
    ELSE ToDecimal(n \div 10) \o <<DigitChars[(n % 10) + 1]>>

\* map.get(key) ?? 0
MapGet(map, key) == IF key \in DOMAIN map THEN map[key] ELSE 0
\* map.set(key, value)
MapSet(map, key, value) ==
    [k \in (DOMAIN map) \cup {key} |-> IF k = key THEN value ELSE map[k]]

OutputFallback == <<"o", "u", "t", "p", "u", "t">>

ReservedName_offByOne(sanitized, currentCount) ==
    IF currentCount = 0 THEN sanitized
    ELSE sanitized \o <<"-">> \o ToDecimal(currentCount)
\* reserveOutputName lines 34-37: the stem, or `${sanitized}-${currentCount + 1}`
ReservedName(sanitized, currentCount) ==
    IF currentCount = 0 THEN sanitized
    ELSE sanitized \o <<"-">> \o ToDecimal(currentCount + 1)

\* reserveOutputName(map, hint): the updated map and the returned stem
reserveOutputName(map, hint) ==
    LET sanitized    == sanitizeNameHint(hint, OutputFallback)
        currentCount == MapGet(map, sanitized)
    IN  [map  |-> MapSet(map, sanitized, currentCount + 1),
         name |-> ReservedName(sanitized, currentCount)]

\* The name hints tried: icon, ' icon ', icon-2, 'icon 2', '***', '', output,
\* '-a-', 'a.b', 'a  b*c'.
HintInputs ==
    { <<"i", "c", "o", "n">>,
      <<" ", "i", "c", "o", "n", " ">>,
      <<"i", "c", "o", "n", "-", "2">>,
      <<"i", "c", "o", "n", " ", "2">>,
      <<"*", "*", "*">>,
      <<>>,
      OutputFallback,
      <<"-", "a", "-">>,
      <<"a", ".", "b">>,
      <<"a", " ", " ", "b", "*", "c">> }

InitNames ==
    /\ nameCounts = <<>>
    /\ hintLog = <<>>
    /\ stemLog = <<>>

\* One call reserveOutputName(nameCounts, hint) on the shared map.
Reserve(hint) ==
    /\ Len(hintLog) < MaxCalls
    /\ LET r == reserveOutputName(nameCounts, hint)
       IN  /\ nameCounts' = r.map
           /\ hintLog' = Append(hintLog, hint)
           /\ stemLog' = Append(stemLog, r.name)
    /\ UNCHANGED nonNameVars

NextNames == \E hint \in HintInputs : Reserve(hint)

InitSpecNames == InitNames /\ SchedIdle /\ JobsIdle /\ OptionsIdle /\ LibraryIdle
SpecNames == InitSpecNames /\ [][NextNames]_vars

\* ------------------------------------------- claims on reserveOutputName
\* The sanitized form of the i-th hint, and how many of the first i hints
\* share it.
SanitizedHint(i) == sanitizeNameHint(hintLog[i], OutputFallback)
Occurrence(i) ==
    Cardinality({j \in 1..i : SanitizedHint(j) = SanitizedHint(i)})

\* C7: the stems returned for a sequence of hints on one map are pairwise
\* distinct (one stem per hint, in input order).
C7_StemsDistinct ==
    /\ Len(stemLog) = Len(hintLog)
    /\ \A i, j \in 1..Len(stemLog) : i # j => stemLog[i] # stemLog[j]

\* C8: the k-th call whose sanitized hint is s returns s when k = 1 and
\* s-k when k >= 2.
C8_NthOccurrenceSuffix ==
    /\ Len(stemLog) = Len(hintLog)
    /\ \A i \in 1..Len(stemLog) :
          stemLog[i] = IF Occurrence(i) = 1 THEN SanitizedHint(i)
                       ELSE SanitizedHint(i) \o <<"-">> \o ToDecimal(Occurrence(i))

\* C8 witness: icon, icon, ' icon ' yield icon, icon-2, icon-3.
C8_Witness ==
    /\ hintLog = << <<"i", "c", "o", "n">>, <<"i", "c", "o", "n">>,
                    <<" ", "i", "c", "o", "n", " ">> >>
    /\ stemLog = << <<"i", "c", "o", "n">>, <<"i", "c", "o", "n", "-", "2">>,
                    <<"i", "c", "o", "n", "-", "3">> >>


\* ============================================= input resolution, createJobs
SUPPORTED_FORMATS == {"png", "jpeg", "webp", "avif"}
\* The type OutputFormat
OutputFormats == {"png", "jpeg", "webp", "avif"}

\* The characters of the strings that end up in file names.
StringChars ==
    [png  |-> <<"p", "n", "g">>,
     jpg  |-> <<"j", "p", "g">>,
     jpeg |-> <<"j", "p", "e", "g">>,
     webp |-> <<"w", "e", "b", "p">>,
     avif |-> <<"a", "v", "i", "f">>]

\* extensionForFormat(format)
extensionForFormat(format) == IF format = "jpeg" THEN "jpg" ELSE format

\* sanitizeFileStem(stem, fallback)
sanitizeFileStem(stem, fallback) ==
    LET cleaned == StripHyphens(ReplaceRuns(Trim(stem)))
    IN  IF cleaned = <<>> THEN fallback ELSE cleaned

\* `${prefix}-${n}`
Numbered(prefix, n) == prefix \o <<"-">> \o ToDecimal(n)

\* path.join(dir, `${stem}.${extension}`): a directory and a file name
JoinPath(dir, stem, extension) ==
    [dir |-> dir, file |-> stem \o <<".">> \o StringChars[extension]]

\* Directories and file stems of the SVG files the patterns can match.
InputDirs == {"d1", "d2"}
InputStems ==
    { <<"i", "c", "o", "n">>,
      <<"M", "I", " ", "i", "c", "o", "n">>,
      <<"r", "a", "w", "-", "1">>,
      <<"*">> }
WorkingDir == "cwd"
OutFiles == {None, Some([dir |-> "out", file |-> <<"r", ".", "p", "n", "g">>])}
OutDirs == {None, Some("out")}

FilesOf(inputs) == {i \in 1..Len(inputs) : inputs[i].type = "file"}
InlinesOf(inputs) == {i \in 1..Len(inputs) : inputs[i].type = "inline"}

\* createJobs lines 386-399: the output path of the input at position
\* index (1-based here, `index + 1` in the code).
OutputPathOf(input, index, format, targetFile, targetDir) ==
    LET fallbackName == Numbered(<<"o", "u", "t", "p", "u", "t">>, index)
        stem         == IF input.baseName # <<>> THEN input.baseName ELSE fallbackName
        extension    == extensionForFormat(format)
    IN  IF IsDefined(targetFile) THEN ValueOf(targetFile)
        ELSE IF IsDefined(targetDir) THEN JoinPath(ValueOf(targetDir), stem, extension)
        ELSE JoinPath(IF input.type = "file" THEN input.dir ELSE WorkingDir,
                      stem, extension)

\* createJobs(inputs, format, targets)
createJobs(inputs, format, targetFile, targetDir) ==
    [i \in 1..Len(inputs) |->
        [type       |-> inputs[i].type,
         outputPath |-> OutputPathOf(inputs[i], i, format, targetFile, targetDir)]]

InitJobs ==
    /\ jobsPhase = "resolving"
    /\ outFile \in OutFiles
    /\ outDir \in OutDirs
    /\ jobFormat \in SUPPORTED_FORMATS
    /\ resolvedInputs = <<>>
    /\ jobs = <<>>

\* executeCli lines 192-202: one more matched file (fast-glob yields each
\* absolute path once); files come before inline sources.
ResolveFile(dir, name) ==
    /\ jobsPhase = "resolving"
    /\ Len(resolvedInputs) < MaxInputs
    /\ InlinesOf(resolvedInputs) = {}
    /\ \A i \in FilesOf(resolvedInputs) :
          ~(resolvedInputs[i].dir = dir /\ resolvedInputs[i].name = name)
    /\ LET fileIndex == Cardinality(FilesOf(resolvedInputs)) + 1
           baseName  == sanitizeFileStem(name, Numbered(<<"f", "i", "l", "e">>, fileIndex))
       IN  resolvedInputs' = Append(resolvedInputs,
               [type |-> "file", dir |-> dir, name |-> name, baseName |-> baseName])
    /\ UNCHANGED <<jobsPhase, outFile, outDir, jobFormat, jobs>>
    /\ UNCHANGED nonJobVars

\* executeCli lines 178-183 and 226-237: one more --input-raw source,
\* labelled raw-<n>.
ResolveInline ==
    /\ jobsPhase = "resolving"
    /\ Len(resolvedInputs) < MaxInputs
    /\ LET inlineIndex == Cardinality(InlinesOf(resolvedInputs)) + 1
           label       == Numbered(<<"r", "a", "w">>, inlineIndex)
           baseName    == sanitizeFileStem(label,
                              Numbered(<<"i", "n", "l", "i", "n", "e">>, inlineIndex))
       IN  resolvedInputs' = Append(resolvedInputs,
               [type |-> "inline", dir |-> WorkingDir, name |-> label,
                baseName |-> baseName])
    /\ UNCHANGED <<jobsPhase, outFile, outDir, jobFormat, jobs>>
    /\ UNCHANGED nonJobVars

InputsAccepted_anyCount == Len(resolvedInputs) # 0
\* executeCli lines 239-255: the checks on the resolved inputs and the targets
InputsAccepted ==
    /\ Len(resolvedInputs) # 0
    /\ ~(IsDefined(outFile) /\ Len(resolvedInputs) # 1)
    /\ ~(~IsDefined(outFile) /\ Len(resolvedInputs) > 1 /\ ~IsDefined(outDir))

\* executeCli lines 239-290: validation, then createJobs.
CreateJobs ==
    /\ jobsPhase = "resolving"
    /\ IF InputsAccepted
         THEN /\ jobsPhase' = "created"
              /\ jobs' = createJobs(resolvedInputs, jobFormat, outFile, outDir)
         ELSE /\ jobsPhase' = "rejected"
              /\ jobs' = jobs
    /\ UNCHANGED <<outFile, outDir, jobFormat, resolvedInputs>>
    /\ UNCHANGED nonJobVars

NextJobs ==
    \/ \E dir \in InputDirs, name \in InputStems : ResolveFile(dir, name)
    \/ ResolveInline
    \/ CreateJobs

InitSpecJobs == InitJobs /\ SchedIdle /\ NamesIdle /\ OptionsIdle /\ LibraryIdle
SpecJobs == InitSpecJobs /\ [][NextJobs]_vars

\* ---------------------------------------------------- claims on createJobs
\* C6: with an output directory, the jobs created for one batch have
\* pairwise distinct output paths.
C6_OutputPathsUnique ==
    (jobsPhase = "created" /\ IsDefined(outDir)) =>
        \A i, j \in 1..Len(jobs) : i # j => jobs[i].outputPath # jobs[j].outputPath

\* =========================== mergeRenderOptions, executeCli option resolution
\* The fields of RenderOptions (src/src/types.ts), every one optional.
RenderOptionFields ==
    {"format", "width", "height", "scale", "background", "extraCss", "time",
     "allowExternalStyles", "baseUrl", "navigationTimeoutMs"}

\* {}: no field defined
EmptyOptions == [f \in RenderOptionFields |-> None]

DefinedCount(rec, fields) == Cardinality({f \in fields : IsDefined(rec[f])})

\* Options a preset file can hold after normalizeRenderOptions: format is a
\* supported format, numbers are finite, strings are non-blank.
PresetOptionSets ==
    {p \in [format : {None, Some("webp"), Some("jpeg")},
            width : {None, Some(1024)},
            height : {None, Some(768)},
            scale : {None, Some(2)},
            background : {None, Some("#fff")},
            extraCss : {None, Some("svg{}")},
            time : {None, Some(0)},
            allowExternalStyles : {None, Some(TRUE)},
            baseUrl : {None, Some("file:///presets/")},
            navigationTimeoutMs : {None, Some(5000)}] :
        DefinedCount(p, RenderOptionFields \ {"format", "width"}) <= MaxSetFields}

\* The render flags of CliFlags; css stands for the content of the --css file.
FlagFields == {"format", "width", "height", "scale", "background", "css", "time",
               "disableExternalStyles"}
FlagSets ==
    {g \in [format : {None, Some("png"), Some("avif")},
            width : {None, Some(0), Some(256)},
            height : {None, Some(128)},
            scale : {None, Some(3)},
            background : {None, Some("transparent")},
            css : {None, Some("a{}")},
            time : {None, Some(1)},
            disableExternalStyles : {None, Some(TRUE), Some(FALSE)}] :
        DefinedCount(g, FlagFields \ {"format", "width"}) <= MaxSetFields}

\* Overrides a direct caller of mergeRenderOptions can add to the flags'.
ExtraOverrides ==
    [allowExternalStyles : {None, Some(TRUE), Some(FALSE)},
     baseUrl : {None, Some("file:///cwd/")},
     navigationTimeoutMs : {None, Some(0)}]

\* JavaScript truthiness of an optional string
TruthyString(x) == IsDefined(x) /\ ValueOf(x) # ""
\* JavaScript truthiness of an optional boolean
TruthyBoolean(x) == IsDefined(x) /\ ValueOf(x)

mergeRenderOptions_spread(preset, overrides) == overrides
\* mergeRenderOptions(preset, overrides)
mergeRenderOptions(preset, overrides) ==
    [format     |-> IF TruthyString(overrides.format) THEN overrides.format
                    ELSE preset.format,
     width      |-> IF IsDefined(overrides.width) THEN overrides.width ELSE preset.width,
     height     |-> IF IsDefined(overrides.height) THEN overrides.height ELSE preset.height,
     scale      |-> IF IsDefined(overrides.scale) THEN overrides.scale ELSE preset.scale,
     background |-> IF IsDefined(overrides.background) THEN overrides.background
                    ELSE preset.background,
     extraCss   |-> IF IsDefined(overrides.extraCss) THEN overrides.extraCss
                    ELSE preset.extraCss,
     time       |-> IF IsDefined(overrides.time) THEN overrides.time ELSE preset.time,
     allowExternalStyles |->
                    IF IsDefined(overrides.allowExternalStyles)
                      THEN overrides.allowExternalStyles
                      ELSE preset.allowExternalStyles,
     baseUrl    |-> IF IsDefined(overrides.baseUrl) THEN overrides.baseUrl
                    ELSE preset.baseUrl,
     navigationTimeoutMs |->
                    IF IsDefined(overrides.navigationTimeoutMs)
                      THEN overrides.navigationTimeoutMs
                      ELSE preset.navigationTimeoutMs]

\* executeCli lines 271-280: the overrides object built from the flags
OverridesOfFlags(g) ==
    [format     |-> g.format,
     width      |-> g.width,
     height     |-> g.height,
     scale      |-> g.scale,
     background |-> g.background,
     extraCss   |-> g.css,
     time       |-> g.time,
     allowExternalStyles |->
         IF TruthyBoolean(g.disableExternalStyles) THEN Some(FALSE) ELSE None,
     baseUrl    |-> None,
     navigationTimeoutMs |-> None]

\* presetResult?.preset.options ?? {}
PresetOptions(result) == IF IsDefined(result) THEN ValueOf(result) ELSE EmptyOptions

DefaultedFormat_missing(mergedFormat, presetFormat) == mergedFormat
\* executeCli lines 282-284: renderOptions.format after the defaulting
DefaultedFormat(mergedFormat, presetFormat) ==
    IF ~TruthyString(mergedFormat)
      THEN (IF IsDefined(presetFormat) THEN presetFormat ELSE Some("png"))
      ELSE mergedFormat

\* executeCli line 285: renderOptions.format ?? 'png'
OutputFormatOf(format) == IF IsDefined(format) THEN format ELSE Some("png")

InitOptions ==
    /\ optPhase = "input"
    /\ cliFlags \in FlagSets
    /\ presetRequested \in BOOLEAN
    /\ presetResult \in (IF presetRequested
                           THEN {None} \cup {Some(p) : p \in PresetOptionSets}
                           ELSE {None})
    /\ mergeArgs = None
    /\ mergeResult = None
    /\ renderOptions = None
    /\ outputFormat = None

\* A call mergeRenderOptions(preset, overrides), the overrides being the
\* flags' overrides with the three fields of extra set by the caller.
MergeCall(extra) ==
    /\ optPhase = "input"
    /\ LET preset    == PresetOptions(presetResult)
           overrides == [OverridesOfFlags(cliFlags) EXCEPT
                            !.allowExternalStyles = extra.allowExternalStyles,
                            !.baseUrl = extra.baseUrl,
                            !.navigationTimeoutMs = extra.navigationTimeoutMs]
       IN  /\ mergeArgs' = Some([preset |-> preset, overrides |-> overrides])
           /\ mergeResult' = Some(mergeRenderOptions(preset, overrides))
    /\ optPhase' = "merged"
    /\ UNCHANGED <<cliFlags, presetRequested, presetResult, renderOptions, outputFormat>>
    /\ UNCHANGED nonOptVars

\* executeCli lines 257-285: the preset lookup result, the merge of the
\* flags over the preset and the defaulting of format.
ResolveOptions ==
    /\ optPhase = "input"
    /\ IF presetRequested /\ ~IsDefined(presetResult)
         THEN /\ optPhase' = "rejected"
              /\ UNCHANGED <<mergeArgs, mergeResult, renderOptions, outputFormat>>
         ELSE LET presetOptions == PresetOptions(presetResult)
                  overrides     == OverridesOfFlags(cliFlags)
                  merged        == mergeRenderOptions(presetOptions, overrides)
                  format        == DefaultedFormat(merged.format, presetOptions.format)
              IN  /\ optPhase' = "resolved"
                  /\ mergeArgs' = Some([preset |-> presetOptions, overrides |-> overrides])
                  /\ mergeResult' = Some(merged)
                  /\ renderOptions' = Some([merged EXCEPT !.format = format])
                  /\ outputFormat' = OutputFormatOf(format)
    /\ UNCHANGED <<cliFlags, presetRequested, presetResult>>
    /\ UNCHANGED nonOptVars

NextOptions ==
    \/ \E extra \in ExtraOverrides : MergeCall(extra)
    \/ ResolveOptions

InitSpecOptions == InitOptions /\ SchedIdle /\ NamesIdle /\ JobsIdle /\ LibraryIdle
SpecOptions == InitSpecOptions /\ [][NextOptions]_vars

\* ------------------------------------------- claims on option resolution
\* C9: every field of the merge result is the override's when the override
\* defines it and the preset's otherwise.
C9_FieldwiseMerge ==
    IsDefined(mergeResult) =>
        LET args == ValueOf(mergeArgs)
            out  == ValueOf(mergeResult)
        IN  \A f \in RenderOptionFields :
               out[f] = IF args.overrides[f] # None THEN args.overrides[f]
                        ELSE args.preset[f]

\* C9 witness: preset {format: webp, width: 1024}, override {width: 256}
\* only, merged {format: webp, width: 256}.
C9_Witness ==
    /\ optPhase = "merged"
    /\ IsDefined(mergeResult)
    /\ ValueOf(mergeArgs).preset.format = Some("webp")
    /\ ValueOf(mergeArgs).preset.width = Some(1024)
    /\ DefinedCount(ValueOf(mergeArgs).overrides, RenderOptionFields) = 1
    /\ ValueOf(mergeArgs).overrides.width = Some(256)
    /\ ValueOf(mergeResult).format = Some("webp")
    /\ ValueOf(mergeResult).width = Some(256)

\* C10: the effective options always have a format: the flag's when given,
\* else the selected preset's when it has one, else png.
C10_FormatAlwaysDefined ==
    optPhase = "resolved" =>
        LET expected == IF cliFlags.format # None THEN cliFlags.format
                        ELSE IF presetResult # None /\ ValueOf(presetResult).format # None
                          THEN ValueOf(presetResult).format
                        ELSE Some("png")
        IN  /\ renderOptions # None
            /\ ValueOf(renderOptions).format \in {Some(f) : f \in SUPPORTED_FORMATS}
            /\ ValueOf(renderOptions).format = expected
            /\ outputFormat = expected

\* C10 witness: no --format, a preset that selects webp: the format is webp.
C10_Witness ==
    /\ optPhase = "resolved"
    /\ cliFlags.format = None
    /\ presetResult # None
    /\ ValueOf(presetResult).format = Some("webp")
    /\ outputFormat = Some("webp")


\* ============================================== executeCli, entry to settle
\* executeCli as a whole: the inputs are resolved, validated, the preset is
\* looked up and the options merged, the jobs are created, and the batch is
\* scheduled.  The inputs are a small selection of those of the components.
EntryDirs == {"d1"}
EntryStems == { <<"i", "c", "o", "n">>, <<"*">> }
EntryFlagSets == {g \in FlagSets : DefinedCount(g, FlagFields \ {"format"}) = 0}
EntryPresetResults ==
    {None} \cup {Some(p) : p \in {q \in PresetOptionSets :
                                     DefinedCount(q, RenderOptionFields \ {"format"}) = 0}}
EntryFailSets(n) == {{}, {0}} \cap SUBSET (0..(n - 1))

\* The state when executeCli is called: nothing resolved, the signal either
\* already aborted or not.
InitCli ==
    /\ phase = "off"
    /\ jobCount = 0
    /\ flagConcurrency \in {Some(1), Some(2)}
    /\ cpuCount = Some(8)
    /\ fails = {}
    /\ signalAborted \in BOOLEAN
    /\ listening = FALSE
    /\ cancelled = FALSE
    /\ nextIndex = 0
    /\ completed = 0
    /\ failed = 0
    /\ errors = <<>>
    /\ started = 0
    /\ wpc = <<>>
    /\ wjob = <<>>
    /\ claims = <<>>
    /\ jobStatus = <<>>
    /\ progress = <<>>
    /\ notices = 0
    /\ cancelSets = 0
    /\ abortCount = 0
    /\ claimedAtCancel = -1
    /\ shutdownCalls = 0
    /\ shutdownFailed = FALSE
    /\ abortedUndrained = FALSE
    /\ outcome = "pending"
    /\ reported = -1
    /\ settlements = 0
    /\ jobsPhase = "resolving"
    /\ outFile \in OutFiles
    /\ outDir \in OutDirs
    /\ jobFormat = "png"
    /\ resolvedInputs = <<>>
    /\ jobs = <<>>
    /\ optPhase = "input"
    /\ cliFlags \in EntryFlagSets
    /\ presetRequested \in BOOLEAN
    /\ presetResult \in (IF presetRequested THEN EntryPresetResults ELSE {None})
    /\ mergeArgs = None
    /\ mergeResult = None
    /\ renderOptions = None
    /\ outputFormat = None

\* executeCli lines 239-293: the checks on the inputs, the preset lookup,
\* the merge and the format defaulting, createJobs and the concurrency.
\* A failed check throws: executeCli rejects there.
Enter ==
    /\ phase = "off"
    /\ jobsPhase = "resolving"
    /\ optPhase = "input"
    /\ IF ~InputsAccepted
         THEN /\ jobsPhase' = "rejected"
              /\ phase' = "settled"
              /\ outcome' = "invalidInputs"
              /\ settlements' = settlements + 1
              /\ UNCHANGED <<optPhase, mergeArgs, mergeResult, renderOptions,
                             outputFormat, jobFormat, jobs, jobCount, fails,
                             wpc, wjob, claims, jobStatus>>
         ELSE IF presetRequested /\ ~IsDefined(presetResult)
         THEN /\ optPhase' = "rejected"
              /\ phase' = "settled"
              /\ outcome' = "presetNotFound"
              /\ settlements' = settlements + 1
              /\ UNCHANGED <<jobsPhase, mergeArgs, mergeResult, renderOptions,
                             outputFormat, jobFormat, jobs, jobCount, fails,
                             wpc, wjob, claims, jobStatus>>
         ELSE LET presetOptions == PresetOptions(presetResult)
                  overrides     == OverridesOfFlags(cliFlags)
                  merged        == mergeRenderOptions(presetOptions, overrides)
                  format        == DefaultedFormat(merged.format, presetOptions.format)
                  n             == Len(resolvedInputs)
                  workers       == 1..WorkerCount(Concurrency(flagConcurrency, cpuCount), n)
              IN  /\ optPhase' = "resolved"
                  /\ mergeArgs' = Some([preset |-> presetOptions, overrides |-> overrides])
                  /\ mergeResult' = Some(merged)
                  /\ renderOptions' = Some([merged EXCEPT !.format = format])
                  /\ outputFormat' = OutputFormatOf(format)
                  /\ jobFormat' = ValueOf(OutputFormatOf(format))
                  /\ jobsPhase' = "created"
                  /\ jobs' = createJobs(resolvedInputs, ValueOf(OutputFormatOf(format)),
                                        outFile, outDir)
                  /\ jobCount' = n
                  /\ fails' \in EntryFailSets(n)
                  /\ wpc' = [w \in workers |-> "unstarted"]
                  /\ wjob' = [w \in workers |-> NoJob]
                  /\ claims' = [j \in 0..(n - 1) |-> 0]
                  /\ jobStatus' = [j \in 0..(n - 1) |-> "Pending"]
                  /\ phase' = "entry"
                  /\ UNCHANGED <<outcome, settlements>>
    /\ UNCHANGED <<flagConcurrency, cpuCount, signalAborted, listening, cancelled,
                   nextIndex, completed, failed, errors, started, progress,
                   notices, cancelSets, abortCount, claimedAtCancel, abortedUndrained,
                   shutdownCalls, shutdownFailed, reported>>
    /\ UNCHANGED <<outFile, outDir, resolvedInputs>>
    /\ UNCHANGED <<cliFlags, presetRequested, presetResult>>
    /\ UNCHANGED <<nameVars, deskVars, shutVars, dimVars, toolVars>>

NextCli ==
    \/ \E dir \in EntryDirs, name \in EntryStems : ResolveFile(dir, name)
    \/ ResolveInline
    \/ Enter
    \/ NextSched

InitSpecCli == InitCli /\ NamesIdle /\ LibraryIdle
SpecCli == InitSpecCli /\ [][NextCli]_vars

\* ------------------------------------------- claims on executeCli's entry
\* The conditions under which the documentation promises a fail-fast
\* rejection, in the claim's own words.
NoInputResolves == Len(resolvedInputs) = 0
OutWithOtherThanOneInput == IsDefined(outFile) /\ Len(resolvedInputs) # 1
SeveralInputsWithoutTarget ==
    Len(resolvedInputs) > 1 /\ ~IsDefined(outFile) /\ ~IsDefined(outDir)
PresetNotFound == presetRequested /\ ~IsDefined(presetResult)
AbortedOnEntry == signalAborted /\ abortCount = 0
FailFastCase ==
    \/ NoInputResolves
    \/ OutWithOtherThanOneInput
    \/ SeveralInputsWithoutTarget
    \/ PresetNotFound
    \/ AbortedOnEntry
RejectedBeforeScheduling == {"invalidInputs", "presetNotFound", "cancelledBeforeStart"}
NothingRendered ==
    /\ started = 0
    /\ nextIndex = 0
    /\ \A j \in Jobs : claims[j] = 0 /\ jobStatus[j] = "Pending"
    /\ progress = <<>>
    /\ ~listening

\* C11: in each fail-fast case executeCli rejects before it schedules
\* anything: once it is past its checks it has settled with a rejection, no
\* worker was started, no job was claimed (no render call) and no job
\* succeeded (no output written); and a run that passes all the checks is not
\* rejected by them.
C11_FailFast ==
    /\ (phase \notin {"off", "entry"} /\ FailFastCase) =>
          /\ phase = "settled"
          /\ outcome \in RejectedBeforeScheduling
          /\ settlements = 1
    /\ (phase \in {"off", "entry"} \/ outcome \in RejectedBeforeScheduling) =>
          NothingRendered
    /\ outcome \in RejectedBeforeScheduling => FailFastCase
    /\ outcome = "presetNotFound" => PresetNotFound
    /\ outcome = "cancelledBeforeStart" => AbortedOnEntry

\* C11 witness: --out combined with two resolved inputs: executeCli rejected
\* at the input checks with nothing rendered.
C11_Witness ==
    /\ phase = "settled"
    /\ OutWithOtherThanOneInput
    /\ Len(resolvedInputs) = 2
    /\ outcome = "invalidInputs"
    /\ NothingRendered


\* ================================================= desktop convertFiles
\* The main process handles one 'svg2raster:convert' request: the UI sends
\* the next one only after this one settled (isConverting).  The inputs
\* carry the distinct ids the UI gave them (nextJobId); here they are
\* 1..deskInputs.  The sender's window exists and accepts every send.
DeskInputIds == 1..deskInputs

\* A UiProgressEvent / UiCompleteEvent as sent to the window
ProgressEvent(id, status) ==
    [kind |-> "progress", id |-> id, status |-> status,
     successes |-> 0, failures |-> 0, cancelled |-> FALSE]
CompleteEvent(successes, failures, isCancelled) ==
    [kind |-> "complete", id |-> 0, status |-> "",
     successes |-> successes, failures |-> failures, cancelled |-> isCancelled]

DeskNextIndex_same(i) == i
\* for (const input of request.inputs): the next input
DeskNextIndex(i) == i + 1

\* The name hints of a batch's inputs, as normalizeInputs leaves them.
DeskHints == {<<"i", "c", "o", "n">>, <<"l", "o", "g", "o">>}

InitDesktop ==
    /\ deskPc = "called"
    /\ deskInputs \in 0..MaxDeskInputs
    /\ deskCancelled = FALSE
    /\ deskIndex = 0
    /\ deskSuccesses = 0
    /\ deskFailures = <<>>
    /\ deskEvents = <<>>
    /\ deskDelivered = 0
    /\ uiStatus = [id \in 1..deskInputs |-> "queued"]
    /\ uiCompletions = <<>>
    /\ deskError = "none"
    /\ deskFormat \in OutputFormats
    /\ deskOutputs = <<>>
    /\ deskHints \in [1..deskInputs -> DeskHints]
    /\ deskNameCounts = <<>>

\* const ext = renderResult.format === 'jpeg' ? 'jpg' : renderResult.format,
\* with the names left as they are (not in the code)
DesktopExtension_plain(format) == format
\* const ext = renderResult.format === 'jpeg' ? 'jpg' : renderResult.format
DesktopExtension(format) == IF format = "jpeg" THEN "jpg" ELSE format

\* The head of the for loop at position idx, after the events sent so far:
\* past the last input or cancelled, the loop ends and shutdownRenderer is
\* awaited; otherwise 'started' is sent and the render is awaited.
DeskLoopHead(idx, events) ==
    IF idx > deskInputs \/ deskCancelled
      THEN /\ deskPc' = "shutdown"
           /\ deskIndex' = deskIndex
           /\ deskEvents' = events
      ELSE /\ deskPc' = "rendering"
           /\ deskIndex' = idx
           /\ deskEvents' = Append(events, ProgressEvent(idx, "started"))

\* The catch block for the current input, then the loop head.
DeskCatch ==
    /\ deskFailures' = Append(deskFailures, deskIndex)
    /\ DeskLoopHead(DeskNextIndex(deskIndex),
                    Append(deskEvents, ProgressEvent(deskIndex, "failed")))
    /\ UNCHANGED deskSuccesses

\* The convert handler and convertFiles up to `await fs.mkdir(...)`;
\* request.outputDir is non-empty after path.resolve.
Convert ==
    /\ deskPc = "called"
    /\ IF deskInputs = 0
         THEN /\ deskPc' = "rejected"
              /\ deskError' = "noInputs"
         ELSE /\ deskPc' = "mkdir"
              /\ UNCHANGED deskError
    /\ UNCHANGED <<deskInputs, deskFormat, deskCancelled, deskIndex, deskSuccesses,
                   deskFailures, deskEvents, deskDelivered, uiStatus,
                   uiCompletions>>
    /\ UNCHANGED <<deskOutputs, deskHints, deskNameCounts>>
    /\ UNCHANGED nonDeskVars

\* fs.mkdir settles: a rejection leaves convertFiles; otherwise the loop
\* starts.
MkdirSettles(ok) ==
    /\ deskPc = "mkdir"
    /\ IF ok
         THEN /\ DeskLoopHead(1, deskEvents)
              /\ UNCHANGED deskError
         ELSE /\ deskPc' = "rejected"
              /\ deskError' = "mkdir"
              /\ UNCHANGED <<deskIndex, deskEvents>>
    /\ UNCHANGED <<deskInputs, deskFormat, deskCancelled, deskSuccesses, deskFailures,
                   deskDelivered, uiStatus, uiCompletions>>
    /\ UNCHANGED <<deskOutputs, deskHints, deskNameCounts>>
    /\ UNCHANGED nonDeskVars

\* renderSvgFile / renderSvg settles: on success (renderResult.format being
\* the format asked for) the extension is chosen, the name reserved and
\* fs.writeFile awaited; on failure the catch block runs.
RenderSettles(ok) ==
    /\ deskPc = "rendering"
    /\ IF ok
         THEN LET reserved == reserveOutputName(deskNameCounts, deskHints[deskIndex])
              IN  /\ deskPc' = "writing"
                  /\ deskNameCounts' = reserved.map
                  /\ deskOutputs' = Append(deskOutputs,
                         [id |-> deskIndex, format |-> deskFormat,
                          ext |-> DesktopExtension(deskFormat),
                          stem |-> reserved.name])
                  /\ UNCHANGED <<deskIndex, deskEvents, deskFailures, deskSuccesses>>
         ELSE DeskCatch /\ UNCHANGED <<deskOutputs, deskNameCounts>>
    /\ UNCHANGED deskHints
    /\ UNCHANGED <<deskInputs, deskFormat, deskCancelled, deskDelivered, uiStatus,
                   uiCompletions, deskError>>
    /\ UNCHANGED nonDeskVars

\* fs.writeFile settles: on success the tally and 'succeeded', on failure
\* the catch block; then the loop head.
WriteSettles(ok) ==
    /\ deskPc = "writing"
    /\ IF ok
         THEN /\ deskSuccesses' = deskSuccesses + 1
              /\ DeskLoopHead(DeskNextIndex(deskIndex),
                              Append(deskEvents, ProgressEvent(deskIndex, "succeeded")))
              /\ UNCHANGED deskFailures
         ELSE DeskCatch
    /\ UNCHANGED <<deskInputs, deskFormat, deskCancelled, deskDelivered, uiStatus,
                   uiCompletions, deskError>>
    /\ UNCHANGED <<deskOutputs, deskHints, deskNameCounts>>
    /\ UNCHANGED nonDeskVars

\* `await shutdownRenderer().catch(() => undefined)` settles: the completion
\* is sent, then convertFiles throws when cancelled and returns otherwise.
ShutdownSettles ==
    /\ deskPc = "shutdown"
    /\ deskEvents' = Append(deskEvents,
           CompleteEvent(deskSuccesses, Len(deskFailures), deskCancelled))
    /\ IF deskCancelled
         THEN /\ deskPc' = "rejected"
              /\ deskError' = "cancelled"
         ELSE /\ deskPc' = "resolved"
              /\ UNCHANGED deskError
    /\ UNCHANGED <<deskInputs, deskFormat, deskCancelled, deskIndex, deskSuccesses,
                   deskFailures, deskDelivered, uiStatus, uiCompletions>>
    /\ UNCHANGED <<deskOutputs, deskHints, deskNameCounts>>
    /\ UNCHANGED nonDeskVars

\* The 'svg2raster:cancel' handler while activeConversion is set (a repeated
\* request changes nothing).
CancelConversion ==
    /\ deskPc \in {"mkdir", "rendering", "writing", "shutdown"}
    /\ ~deskCancelled
    /\ deskCancelled' = TRUE
    /\ UNCHANGED <<deskPc, deskInputs, deskFormat, deskIndex, deskSuccesses, deskFailures,
                   deskEvents, deskDelivered, uiStatus, uiCompletions, deskError>>
    /\ UNCHANGED <<deskOutputs, deskHints, deskNameCounts>>
    /\ UNCHANGED nonDeskVars

\* The UI handles the next event, in send order: handleProgressEvent sets
\* the job's status, handleCompleteEvent shows the summary.
Deliver ==
    /\ deskDelivered < Len(deskEvents)
    /\ LET ev == deskEvents[deskDelivered + 1]
       IN  IF ev.kind = "progress"
             THEN /\ uiStatus' = IF ev.id \in DOMAIN uiStatus
                                   THEN [uiStatus EXCEPT ![ev.id] = ev.status]
                                   ELSE uiStatus
                  /\ UNCHANGED uiCompletions
             ELSE /\ uiCompletions' = Append(uiCompletions, ev)
                  /\ UNCHANGED uiStatus
    /\ deskDelivered' = deskDelivered + 1
    /\ UNCHANGED <<deskPc, deskInputs, deskFormat, deskCancelled, deskIndex, deskSuccesses,
                   deskFailures, deskEvents, deskError>>
    /\ UNCHANGED <<deskOutputs, deskHints, deskNameCounts>>
    /\ UNCHANGED nonDeskVars

NextDesktop ==
    \/ Convert
    \/ \E ok \in BOOLEAN : MkdirSettles(ok)
    \/ \E ok \in BOOLEAN : RenderSettles(ok)
    \/ \E ok \in BOOLEAN : WriteSettles(ok)
    \/ ShutdownSettles
    \/ CancelConversion
    \/ Deliver

InitSpecDesktop ==
    InitDesktop /\ SchedIdle /\ NamesIdle /\ JobsIdle /\ OptionsIdle /\ ShutIdle /\ DimsIdle
                /\ ToolsIdle
SpecDesktop == InitSpecDesktop /\ [][NextDesktop]_vars

\* ------------------------------------------------ claims on convertFiles
DeskSettled == deskPc \in {"resolved", "rejected"}
ProgressEventsOf(id) ==
    SelectSeq(deskEvents, LAMBDA ev : ev.kind = "progress" /\ ev.id = id)
StatusesOf(id) == [k \in 1..Len(ProgressEventsOf(id)) |-> ProgressEventsOf(id)[k].status]
StartedInputs == {id \in DeskInputIds : Len(ProgressEventsOf(id)) > 0}
CompletionEvents == SelectSeq(deskEvents, LAMBDA ev : ev.kind = "complete")

\* C13: the progress events of each input are, in send order, nothing,
\* started, or started followed by exactly one of succeeded and failed; a
\* settled batch leaves no input at started; and the status the UI shows for
\* a job only moves queued -> started -> succeeded or failed.
C13_EventState ==
    /\ \A id \in DeskInputIds :
          StatusesOf(id) \in {<<>>, <<"started">>, <<"started", "succeeded">>,
                              <<"started", "failed">>}
    /\ \A k \in 1..Len(deskEvents) :
          deskEvents[k].kind = "progress" => deskEvents[k].id \in DeskInputIds
    /\ DeskSettled => \A id \in DeskInputIds : Len(StatusesOf(id)) # 1
C13_UiStep ==
    \A id \in DeskInputIds :
        uiStatus'[id] # uiStatus[id] =>
            \/ uiStatus[id] = "queued" /\ uiStatus'[id] = "started"
            \/ uiStatus[id] = "started" /\ uiStatus'[id] \in {"succeeded", "failed"}
C13_StartedThenOneTerminal == []C13_EventState /\ [][C13_UiStep]_vars

\* C13 witness: of three inputs the first succeeded, the second failed, the
\* third is rendering, and the UI has caught up with all five events.
C13_Witness ==
    /\ deskInputs = 3
    /\ StatusesOf(1) = <<"started", "succeeded">>
    /\ StatusesOf(2) = <<"started", "failed">>
    /\ StatusesOf(3) = <<"started">>
    /\ uiStatus = <<"succeeded", "failed", "started">>

\* C14: a batch that passed the input validation and has settled sent
\* exactly one completion event, as its last event, carrying successes and
\* failures that add up to the number of started inputs and the batch's
\* cancellation flag; no batch ever sends two, or a progress event after it.
C14_OneCompletion ==
    /\ Len(CompletionEvents) <= 1
    /\ \A k \in 1..Len(deskEvents) :
          deskEvents[k].kind = "complete" => k = Len(deskEvents)
    /\ (DeskSettled /\ deskError # "noInputs") =>
          /\ Len(CompletionEvents) = 1
          /\ LET done == CompletionEvents[1]
             IN  /\ done.successes = deskSuccesses
                 /\ done.failures = Len(deskFailures)
                 /\ done.successes + done.failures = Cardinality(StartedInputs)
                 /\ done.cancelled = deskCancelled


\* ===================================================== shutdownRenderer
\* The shared renderer of index.ts (getRenderer, shutdownRenderer) and
\* BrowserRenderer (getBrowser, close).  Renders set the renderer up; then
\* up to MaxCallers calls of shutdownRenderer run, each suspended at its
\* awaits, where the other calls and the launch can run.
Callers == 1..MaxCallers
NoCallYet == \A c \in Callers : callerPc[c] = "idle"

InitShutdown ==
    /\ sharedRenderer = "null"
    /\ browserPromise = "undefined"
    /\ launch = "none"
    /\ browserState = "none"
    /\ browserCloseCalls = 0
    /\ callerPc = [c \in Callers |-> "idle"]
    /\ callerPath = [c \in Callers |-> "none"]
    /\ callerFailed = {}

\* getRenderer(), called by renderSvg: the renderer is created on first use.
GetRenderer ==
    /\ NoCallYet
    /\ sharedRenderer = "null"
    /\ sharedRenderer' = "renderer"
    /\ UNCHANGED <<browserPromise, launch, browserState, browserCloseCalls,
                   callerPc, callerPath, callerFailed>>
    /\ UNCHANGED nonShutVars

\* BrowserRenderer.getBrowser(), called by render: the launch starts when no
\* browserPromise is held.
GetBrowser ==
    /\ NoCallYet
    /\ sharedRenderer = "renderer"
    /\ browserPromise = "undefined"
    /\ browserPromise' = "set"
    /\ launch' = "pending"
    /\ UNCHANGED <<sharedRenderer, browserState, browserCloseCalls, callerPc,
                   callerPath, callerFailed>>
    /\ UNCHANGED nonShutVars

\* launchBrowser() settles: the browser runs, or the catch handler of
\* getBrowser drops the promise.
LaunchSettles(ok) ==
    /\ launch = "pending"
    /\ IF ok
         THEN /\ launch' = "launched"
              /\ browserState' = "open"
              /\ UNCHANGED browserPromise
         ELSE /\ launch' = "failed"
              /\ browserPromise' = "undefined"
              /\ UNCHANGED browserState
    /\ UNCHANGED <<sharedRenderer, browserCloseCalls, callerPc, callerPath,
                   callerFailed>>
    /\ UNCHANGED nonShutVars

\* Caller c calls shutdownRenderer(): without a renderer it returns; else it
\* calls close(), which returns at once without a browserPromise and awaits
\* the promise otherwise.
ShutdownCall(c) ==
    /\ callerPc[c] = "idle"
    /\ IF sharedRenderer = "null"
         THEN /\ callerPc' = [callerPc EXCEPT ![c] = "done"]
              /\ callerPath' = [callerPath EXCEPT ![c] = "noop"]
         ELSE /\ callerPc' = [callerPc EXCEPT ![c] =
                     IF browserPromise = "undefined" THEN "awaitClose" ELSE "awaitLaunch"]
              /\ callerPath' = [callerPath EXCEPT ![c] = "closing"]
    /\ UNCHANGED <<sharedRenderer, browserPromise, launch, browserState,
                   browserCloseCalls, callerFailed>>
    /\ UNCHANGED nonShutVars

\* close() of caller c resumes after `await this.browserPromise`: with the
\* browser it calls browser.close(); a failed launch is caught, and the
\* finally block drops the promise.
LaunchAwaited(c) ==
    /\ callerPc[c] = "awaitLaunch"
    /\ launch \in {"launched", "failed"}
    /\ IF launch = "launched"
         THEN /\ browserCloseCalls' = browserCloseCalls + 1
              /\ browserState' = "closed"
              /\ callerPc' = [callerPc EXCEPT ![c] = "awaitBrowserClose"]
              /\ UNCHANGED browserPromise
         ELSE /\ browserPromise' = "undefined"
              /\ callerPc' = [callerPc EXCEPT ![c] = "awaitClose"]
              /\ UNCHANGED <<browserCloseCalls, browserState>>
    /\ UNCHANGED <<sharedRenderer, launch, callerPath, callerFailed>>
    /\ UNCHANGED nonShutVars

\* browser.close() of caller c settles; a rejection is caught and logged;
\* the finally block drops the promise and close() returns.
BrowserCloseSettles(c) ==
    /\ callerPc[c] = "awaitBrowserClose"
    /\ browserPromise' = "undefined"
    /\ callerPc' = [callerPc EXCEPT ![c] = "awaitClose"]
    /\ UNCHANGED <<sharedRenderer, launch, browserState, browserCloseCalls,
                   callerPath, callerFailed>>
    /\ UNCHANGED nonShutVars

\* shutdownRenderer of caller c resumes after `await sharedRenderer.close()`
\* and clears the handle.
CloseReturns(c) ==
    /\ callerPc[c] = "awaitClose"
    /\ sharedRenderer' = "null"
    /\ callerPc' = [callerPc EXCEPT ![c] = "done"]
    /\ UNCHANGED <<browserPromise, launch, browserState, browserCloseCalls,
                   callerPath, callerFailed>>
    /\ UNCHANGED nonShutVars

NextShutdown ==
    \/ GetRenderer
    \/ GetBrowser
    \/ \E ok \in BOOLEAN : LaunchSettles(ok)
    \/ \E c \in Callers :
          \/ ShutdownCall(c)
          \/ LaunchAwaited(c)
          \/ BrowserCloseSettles(c)
          \/ CloseReturns(c)

InitSpecShutdown ==
    InitShutdown /\ SchedIdle /\ NamesIdle /\ JobsIdle /\ OptionsIdle /\ DeskIdle /\ DimsIdle
                 /\ ToolsIdle
SpecShutdown == InitSpecShutdown /\ [][NextShutdown]_vars

\* -------------------------------------------- claims on shutdownRenderer
AllCallsDone == \A c \in Callers : callerPc[c] = "done"

\* C16: however the calls of shutdownRenderer interleave, browser.close() is
\* called at most once, and exactly once when a browser was launched and all
\* calls are done; then the handle is null and no browserPromise is held; no
\* call rejects; a call that finds no renderer returns at once.
C16_ShutdownOnce ==
    /\ browserCloseCalls <= 1
    /\ callerFailed = {}
    /\ \A c \in Callers : callerPath[c] = "noop" => callerPc[c] = "done"
    /\ (AllCallsDone /\ launch # "pending") =>
          /\ sharedRenderer = "null"
          /\ browserPromise = "undefined"
          /\ browserState # "open"
          /\ launch = "launched" => browserCloseCalls = 1


\* ====================================================== deriveDimensions
\* JavaScript numbers: a finite number is the fraction n/d in lowest terms
\* (d > 0), and there are NaN, Infinity and -Infinity.  Arithmetic on finite
\* numbers is exact here.
RECURSIVE Gcd(_, _)
Gcd(a, b) == IF b = 0 THEN a ELSE Gcd(b, a % b)
Abs(a) == IF a < 0 THEN -a ELSE a

Fin(n, d) ==
    LET g == Gcd(Abs(n), d)
    IN  [k |-> "fin", n |-> n \div (IF g = 0 THEN 1 ELSE g),
                      d |-> d \div (IF g = 0 THEN 1 ELSE g)]
Whole(n) == Fin(n, 1)
NaN == [k |-> "nan", n |-> 0, d |-> 1]
Infinity == [k |-> "inf", n |-> 1, d |-> 1]
NegInfinity == [k |-> "inf", n |-> -1, d |-> 1]

IsZero(x) == x.k = "fin" /\ x.n = 0
SignOf(x) == IF x.n < 0 THEN -1 ELSE 1
Signed(sign) == IF sign < 0 THEN NegInfinity ELSE Infinity

\* a * b
NumMul(a, b) ==
    IF a.k = "nan" \/ b.k = "nan" THEN NaN
    ELSE IF a.k = "inf" \/ b.k = "inf"
      THEN (IF IsZero(a) \/ IsZero(b) THEN NaN ELSE Signed(SignOf(a) * SignOf(b)))
    ELSE Fin(a.n * b.n, a.d * b.d)

\* a / b
NumDiv(a, b) ==
    IF a.k = "nan" \/ b.k = "nan" THEN NaN
    ELSE IF a.k = "inf"
      THEN (IF b.k = "inf" THEN NaN ELSE Signed(SignOf(a) * SignOf(b)))
    ELSE IF b.k = "inf" THEN Whole(0)
    ELSE IF IsZero(b) THEN (IF IsZero(a) THEN NaN ELSE Signed(SignOf(a)))
    ELSE Fin(SignOf(b) * a.n * b.d, a.d * Abs(b.n))

\* Math.round(x): the nearest integer, halves towards +Infinity
MathRound(x) ==
    IF x.k = "fin" THEN Whole((2 * x.n + x.d) \div (2 * x.d)) ELSE x

\* Math.max(1, x)
MathMax1(x) ==
    IF x.k = "nan" THEN NaN
    ELSE IF x.k = "inf" THEN (IF x.n > 0 THEN Infinity ELSE Whole(1))
    ELSE IF x.n < x.d THEN Whole(1) ELSE x

\* JavaScript truthiness of an optional number: defined, not 0, not NaN
TruthyNumber(x) == IsDefined(x) /\ ValueOf(x).k # "nan" /\ ~IsZero(ValueOf(x))
\* a ?? b
Coalesce(a, b) == IF IsDefined(a) THEN a ELSE b

DEFAULT_VIEWPORT_SIZE == 512

UnitFactor_inches(unit) == Whole(96)
\* UNIT_TO_PX[unit] ?? UNIT_TO_PX.px, for the units whose factor is a whole
\* number (cm, mm and pt are left out); a key the object inherits, such as
\* constructor, yields a function, which a product turns into NaN.
UnitFactor(unit) ==
    IF unit = "in" THEN Whole(96)
    ELSE IF unit = "pc" THEN Whole(16)
    ELSE IF unit = "constructor" THEN NaN
    ELSE Whole(1)

\* An attribute value as the regular expressions see it: a number followed
\* by a unit, or text that does not match.
Length(num, unit) == Some([form |-> "length", num |-> num, unit |-> unit])
Unparsable == Some([form |-> "unparsable", num |-> NaN, unit |-> ""])

\* convertLengthToPx(value)
convertLengthToPx(value) ==
    IF ~IsDefined(value) THEN None
    ELSE IF ValueOf(value).form # "length" THEN None
    ELSE LET unit == IF ValueOf(value).unit = "" THEN "px" ELSE ValueOf(value).unit
         IN  IF unit = "%" THEN None
             ELSE Some(NumMul(ValueOf(value).num, UnitFactor(unit)))

\* A viewBox attribute: four numbers (minX and minY play no part), or text
\* that is not four numbers.
ViewBoxOf(width, height) == Some([form |-> "numbers", width |-> width, height |-> height])
BadViewBox == Some([form |-> "unparsable", width |-> NaN, height |-> NaN])

\* parseViewBox(value)
parseViewBox(value) ==
    IF ~IsDefined(value) THEN None
    ELSE IF ValueOf(value).form # "numbers" THEN None
    ELSE Some([width |-> ValueOf(value).width, height |-> ValueOf(value).height])


CompleteHeight_times(width, ratio) == NumMul(width, ratio)
\* height = width / ratio
CompleteHeight(width, ratio) == NumDiv(width, ratio)
\* width = height * ratio
CompleteWidth(height, ratio) == NumMul(height, ratio)

\* The viewBox never fills a side in (not in the code)
ViewBoxSide_ignored(side, viewBoxSide) == side
\* if (!side && viewBox?.side) side = viewBox.side
ViewBoxSide(side, viewBoxSide) ==
    IF ~TruthyNumber(side) /\ TruthyNumber(viewBoxSide) THEN viewBoxSide ELSE side

\* A side that nothing gave takes the fallback 0 (not in the code)
ResolvedSide_noFallback(side, other) ==
    Coalesce(side, Coalesce(other, Some(Whole(0))))
\* A side that nothing gave takes the fallback although the other side is
\* there (not in the code)
ResolvedSide_fallbackFirst(side, other) ==
    Coalesce(side, Some(Whole(DEFAULT_VIEWPORT_SIZE)))
\* side ?? other ?? DEFAULT_VIEWPORT_SIZE
ResolvedSide(side, other) ==
    Coalesce(side, Coalesce(other, Some(Whole(DEFAULT_VIEWPORT_SIZE))))

\* The body of deriveDimensions(svg, overrides) after parseSvgAttributes,
\* svg being the attributes parseSvgAttributes found.
deriveDimensions(svg, overrides) ==
    LET widthAttr      == convertLengthToPx(svg.width)
        heightAttr     == convertLengthToPx(svg.height)
        viewBox        == parseViewBox(svg.viewBox)
        viewBoxRatio   == IF IsDefined(viewBox) /\ ~IsZero(ValueOf(viewBox).height)
                            THEN Some(NumDiv(ValueOf(viewBox).width, ValueOf(viewBox).height))
                            ELSE None
        attributeRatio == IF TruthyNumber(widthAttr) /\ TruthyNumber(heightAttr)
                            THEN Some(NumDiv(ValueOf(widthAttr), ValueOf(heightAttr)))
                            ELSE None
        ratio          == Coalesce(viewBoxRatio, attributeRatio)
        width0         == Coalesce(overrides.width, widthAttr)
        height0        == Coalesce(overrides.height, heightAttr)
        height1        == IF TruthyNumber(width0) /\ ~TruthyNumber(height0) /\ TruthyNumber(ratio)
                            THEN Some(CompleteHeight(ValueOf(width0), ValueOf(ratio)))
                            ELSE height0
        width1         == IF ~(TruthyNumber(width0) /\ ~TruthyNumber(height0) /\ TruthyNumber(ratio))
                             /\ ~TruthyNumber(width0) /\ TruthyNumber(height0) /\ TruthyNumber(ratio)
                            THEN Some(CompleteWidth(ValueOf(height0), ValueOf(ratio)))
                            ELSE width0
        viewBoxWidth   == IF IsDefined(viewBox) THEN Some(ValueOf(viewBox).width) ELSE None
        viewBoxHeight  == IF IsDefined(viewBox) THEN Some(ValueOf(viewBox).height) ELSE None
        width2         == ViewBoxSide(width1, viewBoxWidth)
        height2        == ViewBoxSide(height1, viewBoxHeight)
        resolvedWidth  == ResolvedSide(width2, height2)
        resolvedHeight == ResolvedSide(height2, width2)
    IN  [width   |-> MathMax1(MathRound(ValueOf(resolvedWidth))),
         height  |-> MathMax1(MathRound(ValueOf(resolvedHeight))),
         viewBox |-> viewBox]

\* The width, height and viewBox attributes a root <svg> element can carry,
\* and the overrides a caller can pass.
WidthAttributes ==
    {None, Unparsable, Length(Whole(200), ""), Length(Whole(100), "px"),
     Length(Whole(0), ""), Length(Whole(-5), ""), Length(Whole(1), "in"),
     Length(Whole(50), "%"), Length(Fin(2, 5), ""), Length(Whole(5), "constructor")}
HeightAttributes ==
    {None, Unparsable, Length(Whole(60), ""), Length(Whole(50), "px"),
     Length(Whole(0), "px"), Length(Whole(2), "pc"), Length(Whole(3), "em")}
ViewBoxAttributes ==
    {None, BadViewBox, ViewBoxOf(Whole(100), Whole(50)), ViewBoxOf(Whole(40), Whole(20)),
     ViewBoxOf(Whole(0), Whole(50)), ViewBoxOf(Whole(100), Whole(0)),
     ViewBoxOf(Whole(-100), Whole(50)), ViewBoxOf(Whole(3), Whole(7)),
     ViewBoxOf(Infinity, Whole(10)), ViewBoxOf(Fin(21, 2), Fin(2, 5))}
WidthOverrides == {None, Some(Whole(80)), Some(Whole(200)), Some(Whole(0))}
HeightOverrides == {None, Some(Whole(60)), Some(Whole(0))}

\* Markup is a sequence of pieces: "<svg" and "<SVG" are the text <svg in
\* either case followed by a character that is not a word character,
\* "<svgx" is <svg followed by a word character, "<div" opens another
\* element, ">" is the character >, "attrs" is the text of the attributes
\* dimSvg and "text" is any other text free of < and >.
PlainRoot == <<"<svg", "attrs", ">">>
MarkupShapes ==
    {PlainRoot,
     <<"<SVG", "attrs", ">">>,
     <<"<svg", ">">>,
     <<"text", "<svg", "attrs", ">", "text">>,
     <<"<div", ">", "<svg", "attrs", ">">>,
     <<"<svg", ">", "<svg", "attrs", ">">>,
     <<"<svgx", "attrs", ">", "<svg", "attrs", ">">>,
     <<"<svg", "<div", ">", "attrs">>,
     <<>>,
     <<"text">>,
     <<"<svg", "attrs">>,
     <<"<svgx", "attrs", ">">>,
     <<"<div", "attrs", ">">>,
     <<">", "<svg", "attrs">>}
NoAttributes == [width |-> None, height |-> None, viewBox |-> None]

\* <svg matched case-sensitively (not in the code)
SvgOpenings_caseSensitive == {"<svg"}
\* <svg\b under the flag i
SvgOpenings == {"<svg", "<SVG"}
Least(S) == CHOOSE i \in S : \A j \in S : i <= j
\* the positions of > after position i
ClosesAfter(markup, i) == {j \in (i + 1)..Len(markup) : markup[j] = ">"}
\* svg.match(/<svg\b([^>]*)>/i): the first group of the leftmost match
SvgMatch(markup) ==
    LET starts == {i \in 1..Len(markup) :
                     markup[i] \in SvgOpenings /\ ClosesAfter(markup, i) # {}}
    IN  IF starts = {} THEN None
        ELSE LET i == Least(starts)
             IN  Some(SubSeq(markup, i + 1, Least(ClosesAfter(markup, i)) - 1))
\* parseSvgAttributes(svg) where a match exists: the attributes written in
\* the matched opening tag
parseSvgAttributes(markup, written) ==
    LET attrString == ValueOf(SvgMatch(markup))
    IN  IF \E k \in 1..Len(attrString) : attrString[k] = "attrs"
          THEN written ELSE NoAttributes

InitDims ==
    /\ dimPhase = "input"
    /\ dimMarkup = PlainRoot
    /\ dimSvg \in [width : WidthAttributes, height : HeightAttributes,
                    viewBox : ViewBoxAttributes]
    /\ dimOverrides \in [width : WidthOverrides, height : HeightOverrides]
    /\ dimResult = None
    /\ dimError = "none"

\* A call deriveDimensions(svg, overrides)
Derive ==
    /\ dimPhase = "input"
    /\ IF IsDefined(SvgMatch(dimMarkup))
         THEN /\ dimResult' = Some(deriveDimensions(
                                  parseSvgAttributes(dimMarkup, dimSvg), dimOverrides))
              /\ dimPhase' = "derived"
              /\ UNCHANGED dimError
         ELSE /\ dimError' = "missingRoot"
              /\ dimPhase' = "failed"
              /\ UNCHANGED dimResult
    /\ UNCHANGED <<dimMarkup, dimSvg, dimOverrides>>
    /\ UNCHANGED nonDimVars

NextDims == Derive

InitSpecDims ==
    InitDims /\ SchedIdle /\ NamesIdle /\ JobsIdle /\ OptionsIdle /\ DeskIdle /\ ShutIdle
             /\ ToolsIdle
SpecDims == InitSpecDims /\ [][NextDims]_vars

\* -------------------------------------------- claims on deriveDimensions
Derived == dimPhase = "derived"
ResultWidth == ValueOf(dimResult).width
ResultHeight == ValueOf(dimResult).height
IsPositiveInteger(x) == x.k = "fin" /\ x.d = 1 /\ x.n >= 1
NoOverrides == dimOverrides.width = None /\ dimOverrides.height = None

\* C17: whatever the attributes of the root element and the overrides, the
\* width and the height returned are integers >= 1.
C17_PositiveIntegers ==
    Derived => IsPositiveInteger(ResultWidth) /\ IsPositiveInteger(ResultHeight)


\* The sides and the viewBox as the claims speak of them: a side is known
\* when an override or a length attribute gives it.
KnownWidth == Coalesce(dimOverrides.width, convertLengthToPx(dimSvg.width))
KnownHeight == Coalesce(dimOverrides.height, convertLengthToPx(dimSvg.height))
ParsedViewBox == parseViewBox(dimSvg.viewBox)
ViewBoxRatio == NumDiv(ValueOf(ParsedViewBox).width, ValueOf(ParsedViewBox).height)
RoundedSide(x) == MathMax1(MathRound(x))
ResultIs(w, h) == ResultWidth = Whole(w) /\ ResultHeight = Whole(h)

\* The three worked cases of the claim.
WorkedCases ==
    /\ (dimSvg = [width |-> Length(Whole(200), ""), height |-> None,
                  viewBox |-> ViewBoxOf(Whole(100), Whole(50))] /\ NoOverrides)
          => ResultIs(200, 100)
    /\ (dimSvg = [width |-> None, height |-> None,
                  viewBox |-> ViewBoxOf(Whole(40), Whole(20))]
         /\ dimOverrides = [width |-> Some(Whole(80)), height |-> None])
          => ResultIs(80, 40)
    /\ (dimSvg = [width |-> None, height |-> None,
                  viewBox |-> ViewBoxOf(Whole(40), Whole(20))]
         /\ dimOverrides = [width |-> None, height |-> Some(Whole(60))])
          => ResultIs(120, 60)

\* C18 as stated: with a viewBox of non-zero height and exactly one side
\* known, the known side is returned (rounded) and the other side is the
\* known one divided or multiplied by the viewBox ratio (rounded); the three
\* worked cases give {200, 100}, {80, 40} and {120, 60}.
C18_Original ==
    (Derived /\ IsDefined(ParsedViewBox) /\ ~IsZero(ValueOf(ParsedViewBox).height)) =>
        /\ (IsDefined(KnownWidth) /\ ~IsDefined(KnownHeight)) =>
              /\ ResultWidth = RoundedSide(ValueOf(KnownWidth))
              /\ ResultHeight = RoundedSide(NumDiv(ValueOf(KnownWidth), ViewBoxRatio))
        /\ (~IsDefined(KnownWidth) /\ IsDefined(KnownHeight)) =>
              /\ ResultHeight = RoundedSide(ValueOf(KnownHeight))
              /\ ResultWidth = RoundedSide(NumMul(ValueOf(KnownHeight), ViewBoxRatio))
        /\ WorkedCases

IsFiniteNonZero(x) == x.k = "fin" /\ x.n # 0

\* C18 amended: the same, when the one known side is not zero, the other
\* side is absent or zero, and the viewBox's width and height are finite and
\* not zero.
C18_RatioCompletion ==
    (Derived /\ IsDefined(ParsedViewBox) /\ ~IsZero(ValueOf(ParsedViewBox).height)
             /\ IsFiniteNonZero(ViewBoxRatio)) =>
        /\ (TruthyNumber(KnownWidth) /\ ~TruthyNumber(KnownHeight)) =>
              /\ ResultWidth = RoundedSide(ValueOf(KnownWidth))
              /\ ResultHeight = RoundedSide(NumDiv(ValueOf(KnownWidth), ViewBoxRatio))
        /\ (~TruthyNumber(KnownWidth) /\ TruthyNumber(KnownHeight)) =>
              /\ ResultHeight = RoundedSide(ValueOf(KnownHeight))
              /\ ResultWidth = RoundedSide(NumMul(ValueOf(KnownHeight), ViewBoxRatio))
        /\ WorkedCases

\* C18 witness: width=200 with viewBox 0 0 100 50 was resolved to {200, 100}.
C18_Witness ==
    /\ Derived
    /\ dimSvg = [width |-> Length(Whole(200), ""), height |-> None,
                 viewBox |-> ViewBoxOf(Whole(100), Whole(50))]
    /\ NoOverrides
    /\ ResultIs(200, 100)

\* The aspect ratio of the SVG as the documentation has it: the viewBox's,
\* or without a viewBox that of the width and height attributes.
HasSvgRatio ==
    IF IsDefined(ParsedViewBox)
      THEN ~IsZero(ValueOf(ParsedViewBox).height)
      ELSE IsDefined(convertLengthToPx(dimSvg.width))
           /\ TruthyNumber(convertLengthToPx(dimSvg.height))
SvgRatio ==
    IF IsDefined(ParsedViewBox) THEN ViewBoxRatio
    ELSE NumDiv(ValueOf(convertLengthToPx(dimSvg.width)),
                ValueOf(convertLengthToPx(dimSvg.height)))
IsPositiveFinite(x) == x.k = "fin" /\ x.n > 0

\* C19: with exactly one override (a positive number) and an SVG whose
\* aspect ratio is a positive number, the overridden side is the override
\* and the other side is the override divided or multiplied by that ratio
\* (rounded, at least 1).
C19_OverrideKeepsRatio ==
    (Derived /\ HasSvgRatio /\ IsPositiveFinite(SvgRatio)) =>
        /\ (IsDefined(dimOverrides.width) /\ ~IsDefined(dimOverrides.height)
             /\ IsPositiveFinite(ValueOf(dimOverrides.width))) =>
              /\ ResultWidth = RoundedSide(ValueOf(dimOverrides.width))
              /\ ResultHeight = RoundedSide(NumDiv(ValueOf(dimOverrides.width), SvgRatio))
        /\ (~IsDefined(dimOverrides.width) /\ IsDefined(dimOverrides.height)
             /\ IsPositiveFinite(ValueOf(dimOverrides.height))) =>
              /\ ResultHeight = RoundedSide(ValueOf(dimOverrides.height))
              /\ ResultWidth = RoundedSide(NumMul(ValueOf(dimOverrides.height), SvgRatio))

\* A width or height attribute that is a positive integer, unitless or in px
IsExplicitPixels(attr) ==
    /\ IsDefined(attr)
    /\ ValueOf(attr).form = "length"
    /\ ValueOf(attr).unit \in {"", "px"}
    /\ IsPositiveInteger(ValueOf(attr).num)

\* C20: without overrides, explicit width W and height H (positive integers,
\* unitless or px) are returned as they are, with or without a viewBox.
C20_ExplicitSize ==
    (Derived /\ NoOverrides /\ IsExplicitPixels(dimSvg.width)
             /\ IsExplicitPixels(dimSvg.height)) =>
        /\ ResultWidth = ValueOf(dimSvg.width).num
        /\ ResultHeight = ValueOf(dimSvg.height).num

\* C20 witness: width="100px" height="60" with viewBox 0 0 3 7 gave {100, 60}.
C20_Witness ==
    /\ Derived
    /\ NoOverrides
    /\ dimSvg = [width |-> Length(Whole(100), "px"), height |-> Length(Whole(60), ""),
                 viewBox |-> ViewBoxOf(Whole(3), Whole(7))]
    /\ ResultIs(100, 60)


\* ------------------------------------------- sizes taken from the viewBox
IsPositive(x) == x.k # "nan" /\ x.n > 0
ViewBoxOnly ==
    /\ NoOverrides
    /\ dimSvg.width = None
    /\ dimSvg.height = None
    /\ IsDefined(ParsedViewBox)
    /\ IsPositive(ValueOf(ParsedViewBox).width)
    /\ IsPositive(ValueOf(ParsedViewBox).height)

\* C21 as stated: with a viewBox of positive width w and height h, no width
\* and height attributes and no overrides, the result is {w, h}.
C21_Original ==
    (Derived /\ ViewBoxOnly) =>
        /\ ResultWidth = ValueOf(ParsedViewBox).width
        /\ ResultHeight = ValueOf(ParsedViewBox).height

\* C21 amended: with a viewBox of positive width w and height h, no width
\* and height attributes and no overrides, the result is w and h each
\* rounded to the nearest integer and raised to at least 1, which is {w, h}
\* when w and h are integers.
C21_ViewBoxSize ==
    (Derived /\ ViewBoxOnly) =>
        /\ ResultWidth = RoundedSide(ValueOf(ParsedViewBox).width)
        /\ ResultHeight = RoundedSide(ValueOf(ParsedViewBox).height)
        /\ (IsPositiveInteger(ValueOf(ParsedViewBox).width) =>
              ResultWidth = ValueOf(ParsedViewBox).width)
        /\ (IsPositiveInteger(ValueOf(ParsedViewBox).height) =>
              ResultHeight = ValueOf(ParsedViewBox).height)

\* C21 witness: viewBox="0 0 100 50" alone gave {100, 50}.
C21_Witness ==
    /\ Derived
    /\ ViewBoxOnly
    /\ dimSvg.viewBox = ViewBoxOf(Whole(100), Whole(50))
    /\ ResultIs(100, 50)

\* ------------------------------------------------------ the fixed fallback
NoSizeAttributes == dimSvg = NoAttributes

\* C22: with no width, no height and no viewBox on the root element and no
\* overrides, both sides are the fixed fallback 512, never a value <= 0.
C22_Fallback ==
    (Derived /\ NoOverrides /\ NoSizeAttributes) =>
        /\ ResultIs(DEFAULT_VIEWPORT_SIZE, DEFAULT_VIEWPORT_SIZE)
        /\ IsPositive(ResultWidth)
        /\ IsPositive(ResultHeight)

\* C22 witness: a root element without attributes gave {512, 512}.
C22_Witness ==
    /\ Derived
    /\ NoOverrides
    /\ NoSizeAttributes
    /\ dimMarkup = PlainRoot
    /\ ResultIs(512, 512)


\* ============================ deriveDimensions on markup of any shape
\* deriveDimensions(svg) called without overrides on markup of every shape
\* in MarkupShapes, with every combination of attributes written in it.
InitMarkup ==
    /\ dimPhase = "input"
    /\ dimMarkup \in MarkupShapes
    /\ dimSvg \in [width : WidthAttributes, height : HeightAttributes,
                    viewBox : ViewBoxAttributes]
    /\ dimOverrides = [width |-> None, height |-> None]
    /\ dimResult = None
    /\ dimError = "none"

InitSpecMarkup ==
    InitMarkup /\ SchedIdle /\ NamesIdle /\ JobsIdle /\ OptionsIdle /\ DeskIdle /\ ShutIdle
               /\ ToolsIdle
SpecMarkup == InitSpecMarkup /\ [][NextDims]_vars

DeriveReturned == dimPhase \in {"derived", "failed"}
\* The markup holds an opening tag <svg ...>: the text <svg in either case,
\* not followed by a word character, and a > somewhere after it.
HasSvgOpeningTag ==
    \E i \in 1..Len(dimMarkup) : \E j \in 1..Len(dimMarkup) :
        i < j /\ dimMarkup[i] \in {"<svg", "<SVG"} /\ dimMarkup[j] = ">"
C23_FailedCase ==
    /\ dimPhase = "failed"
    /\ dimMarkup = <<"<svg", "attrs">>
    /\ dimError = "missingRoot"


\* ===================== BrowserRenderer.render's encoding, convertPngBuffer
\* A buffer is its encoding, the picture it holds and the colour it was
\* flattened on (optional).
Pictures == {"p1", "p2"}
PngBuffer(picture) == [encoding |-> "png", picture |-> picture, flattened |-> None]
Backgrounds == {None, Some("transparent"), Some("#ffffff")}
\* job.format as a caller of the library can pass it
JobFormats == {None, Some("png"), Some("jpeg"), Some("webp"), Some("avif"), Some("gif")}

Returned(buffer) == [ok |-> TRUE, buffer |-> buffer, message |-> ""]
Thrown(message) == [ok |-> FALSE, buffer |-> <<>>, message |-> message]
UnsupportedOutputFormat == "Unsupported output format"

\* The formats the switch of convertPngBuffer encodes with sharp.
SharpFormats == {"jpeg", "webp"}
\* convertPngBuffer(input, options)
convertPngBuffer(input, options) ==
    LET backgroundColor ==
            IF IsDefined(options.background) /\ ValueOf(options.background) # "transparent"
              THEN options.background ELSE None
    IN  IF options.format = "png" THEN Returned(input)
        ELSE IF options.format \in SharpFormats
          THEN Returned([encoding |-> options.format, picture |-> input.picture,
                         flattened |-> backgroundColor])
        ELSE Thrown(UnsupportedOutputFormat)

InitRaster ==
    /\ \/ /\ rasterPc = "render"
          /\ rasterCall \in [caller : {"render"}, format : JobFormats,
                             background : Backgrounds, picture : Pictures]
          /\ pngScreenshot = None
       \/ /\ rasterPc = "convert"
          /\ rasterCall \in [caller : {"direct"}, format : {Some(f) : f \in OutputFormats},
                             background : Backgrounds, picture : Pictures]
          /\ pngScreenshot = Some(PngBuffer(rasterCall.picture))
    /\ rasterBuffer = None
    /\ rasterError = None

\* const format = job.format ?? 'png'
ResolvedFormat == IF IsDefined(rasterCall.format) THEN ValueOf(rasterCall.format) ELSE "png"

\* render(job) up to the check of the format
Render ==
    /\ rasterPc = "render"
    /\ IF ResolvedFormat \notin SUPPORTED_FORMATS
         THEN /\ rasterPc' = "threw"
              /\ rasterError' = Some([message |-> UnsupportedOutputFormat, wrapped |-> FALSE])
         ELSE /\ rasterPc' = "page"
              /\ UNCHANGED rasterError
    /\ UNCHANGED <<rasterCall, pngScreenshot, rasterBuffer>>
    /\ UNCHANGED nonRasterVars

\* The page is loaded and the screenshot taken, or one of these steps throws
\* and the catch clause wraps the error.
Screenshot(ok) ==
    /\ rasterPc = "page"
    /\ IF ok
         THEN /\ pngScreenshot' = Some(PngBuffer(rasterCall.picture))
              /\ rasterPc' = "encode"
              /\ UNCHANGED rasterError
         ELSE /\ rasterPc' = "threw"
              /\ rasterError' = Some([message |-> "page", wrapped |-> TRUE])
              /\ UNCHANGED pngScreenshot
    /\ UNCHANGED <<rasterCall, rasterBuffer>>
    /\ UNCHANGED nonRasterVars

\* buffer = format === 'png' ? pngScreenshot : await convertPngBuffer(...)
Encode ==
    /\ rasterPc = "encode"
    /\ LET result == IF ResolvedFormat = "png" THEN Returned(ValueOf(pngScreenshot))
                     ELSE convertPngBuffer(ValueOf(pngScreenshot),
                              [format |-> ResolvedFormat, background |-> rasterCall.background])
       IN  IF result.ok
             THEN /\ rasterBuffer' = Some(result.buffer)
                  /\ rasterPc' = "returned"
                  /\ UNCHANGED rasterError
             ELSE /\ rasterError' = Some([message |-> result.message, wrapped |-> TRUE])
                  /\ rasterPc' = "threw"
                  /\ UNCHANGED rasterBuffer
    /\ UNCHANGED <<rasterCall, pngScreenshot>>
    /\ UNCHANGED nonRasterVars

\* A caller's own convertPngBuffer(png, { format, background })
ConvertDirect ==
    /\ rasterPc = "convert"
    /\ LET result == convertPngBuffer(ValueOf(pngScreenshot),
                         [format |-> ResolvedFormat, background |-> rasterCall.background])
       IN  IF result.ok
             THEN /\ rasterBuffer' = Some(result.buffer)
                  /\ rasterPc' = "returned"
                  /\ UNCHANGED rasterError
             ELSE /\ rasterError' = Some([message |-> result.message, wrapped |-> FALSE])
                  /\ rasterPc' = "threw"
                  /\ UNCHANGED rasterBuffer
    /\ UNCHANGED <<rasterCall, pngScreenshot>>
    /\ UNCHANGED nonRasterVars

NextRaster ==
    \/ Render
    \/ \E ok \in BOOLEAN : Screenshot(ok)
    \/ Encode
    \/ ConvertDirect

InitSpecRaster ==
    InitRaster /\ SchedIdle /\ NamesIdle /\ JobsIdle /\ OptionsIdle /\ DeskIdle /\ ShutIdle
               /\ DimsIdle /\ SigIdle /\ LaunchIdle /\ PresetsIdle /\ MoreIdle
SpecRaster == InitSpecRaster /\ [][NextRaster]_vars

\* ------------------------------------------------- claims on the encoding
RasterSettled == rasterPc \in {"returned", "threw"}
UnsupportedFormatError ==
    IsDefined(rasterError) /\ ValueOf(rasterError).message = UnsupportedOutputFormat

\* C24: convertPngBuffer turns a PNG buffer into every supported format
\* without an error, and returns the input itself for png; so a render in a
\* format of SUPPORTED_FORMATS never ends in an unsupported-format error.
C24_EverySupportedFormat ==
    (RasterSettled /\ ResolvedFormat \in SUPPORTED_FORMATS) =>
        /\ ~UnsupportedFormatError
        /\ rasterCall.caller = "direct" =>
              /\ rasterPc = "returned"
              /\ ValueOf(rasterBuffer).encoding = ResolvedFormat
              /\ ValueOf(rasterBuffer).picture = rasterCall.picture
              /\ (ResolvedFormat = "png" => rasterBuffer = pngScreenshot)

\* A render in webp returned a webp buffer of the picture.
C24_WebpCase ==
    /\ rasterPc = "returned"
    /\ rasterCall.caller = "render"
    /\ ResolvedFormat = "webp"
    /\ ValueOf(rasterBuffer).encoding = "webp"


\* ------------------------------------------------ the extension of a format
\* The table the claim gives: jpeg is written as jpg, the others by name.
ExtensionTable ==
    [format \in OutputFormats |-> IF format = "jpeg" THEN "jpg"
                                   ELSE IF format = "png" THEN "png"
                                   ELSE IF format = "webp" THEN "webp"
                                   ELSE "avif"]

MaxSigints == 3
MaxRunJobs == 3

\* if (sigintCount === 1), with every SIGINT taken as the first (not in the
\* code)
FirstSigint_always(count) == TRUE
\* if (sigintCount === 1)
FirstSigint(count) == count = 1

\* runCli after the handler is registered, executeCli called with the
\* controller's signal.
InitRun ==
    /\ InitSched
    /\ jobCount <= MaxRunJobs
    /\ signalAborted = FALSE
    /\ sigintCount = 0
    /\ sigintHandler = TRUE
    /\ exitCode = None

\* SIGINT arrives while executeCli is suspended (resolving the inputs before
\* its cancellation check, awaiting the workers or awaiting
\* shutdownRenderer) and handleSigint runs: the first time it aborts the
\* controller, afterwards it exits the process with code 130, after which
\* nothing of the program runs.
Sigint ==
    /\ sigintHandler
    /\ exitCode = None
    /\ phase \in {"entry", "awaiting", "shutdown"}
    /\ sigintCount < MaxSigints
    /\ sigintCount' = sigintCount + 1
    /\ IF FirstSigint(sigintCount + 1)
         THEN /\ AbortDispatch
              /\ UNCHANGED <<phase, exitCode>>
         ELSE /\ exitCode' = Some(130)
              /\ phase' = "exited"
              /\ UNCHANGED <<signalAborted, cancelled, cancelSets, notices,
                             claimedAtCancel, abortedUndrained, abortCount>>
    /\ UNCHANGED sigintHandler
    /\ UNCHANGED <<jobCount, flagConcurrency, cpuCount, fails, listening,
                   nextIndex, completed, failed, errors, started, wpc, wjob,
                   claims, jobStatus, progress, shutdownCalls, shutdownFailed, outcome,
                   reported, settlements>>
    /\ UNCHANGED nonRunVars

\* executeCli has settled: runCli's finally block removes the handler. It
\* runs in the microtask that follows the settlement, before any signal is
\* handled.
RunCliFinally ==
    /\ phase = "settled"
    /\ sigintHandler
    /\ sigintHandler' = FALSE
    /\ UNCHANGED <<sigintCount, exitCode>>
    /\ UNCHANGED nonSigVars

NextRun ==
    \/ Schedule
    \/ \E w \in Workers : SpawnWorker(w)
    \/ \E w \in Workers : Resume(w)
    \/ Finally
    \/ \E ok \in BOOLEAN : Settle(ok)
    \/ Sigint
    \/ RunCliFinally

InitSpecRun == InitRun /\ NamesIdle /\ JobsIdle /\ OptionsIdle /\ DeskIdle /\ ShutIdle
                       /\ DimsIdle /\ RasterIdle /\ LaunchIdle /\ PresetsIdle /\ MoreIdle
SpecRun == InitSpecRun /\ [][NextRun]_vars

\* ------------------------------------------------------- claims on SIGINT
SigintHandled == sigintCount' = sigintCount + 1
RunningJobs == {j \in Jobs : jobStatus[j] = "Running"}

\* The first SIGINT aborts the batch's signal (cancellation is requested
\* when executeCli listens) and stops no render and no worker.
C26_FirstStep ==
    (SigintHandled /\ sigintCount = 0) =>
        /\ signalAborted'
        /\ listening => cancelled'
        /\ exitCode' = None
        /\ phase' = phase
        /\ jobStatus' = jobStatus
        /\ wpc' = wpc
\* Every later SIGINT exits the process at once with code 130.
C26_LaterStep ==
    (SigintHandled /\ sigintCount >= 1) =>
        /\ exitCode' = Some(130)
        /\ phase' = "exited"
\* handleSigint runs only while executeCli has not settled, and it is
\* removed only once executeCli has settled; a batch that settles as
\* cancelled has no render in flight.
C26_HandlerState ==
    /\ ~sigintHandler => phase = "settled"
    /\ (IsDefined(exitCode) => exitCode = Some(130) /\ sigintCount >= 2)
    /\ (phase = "settled" /\ outcome = "cancelled") => RunningJobs = {}
C26_HandlerStep ==
    /\ SigintHandled => (sigintHandler /\ phase # "settled")
    /\ (sigintHandler /\ ~sigintHandler') => phase = "settled"

\* C26: in runCli, the first SIGINT of a batch requests graceful
\* cancellation (the signal is aborted, the renders in flight go on), every
\* later SIGINT exits the process immediately with code 130, and the SIGINT
\* handler is removed once executeCli has settled.
C26_SigintHandling ==
    /\ []C26_HandlerState
    /\ [][C26_FirstStep /\ C26_LaterStep /\ C26_HandlerStep]_vars

\* C26 witness: a batch was cancelled by one SIGINT while a render was in
\* flight, settled as cancelled with that job finished, and the handler was
\* removed.
C26_Witness ==
    /\ sigintCount = 1
    /\ ~sigintHandler
    /\ outcome = "cancelled"
    /\ completed + failed >= 1
    /\ completed + failed < jobCount

\* A second SIGINT ended the process with code 130 while a render was in
\* flight.
C26_ForcedExit ==
    /\ exitCode = Some(130)
    /\ sigintCount = 2
    /\ RunningJobs # {}


\* ------------------------------------------- the failure report of a batch
NoCancellationRequested == ~signalAborted /\ abortCount = 0
FailedJobs == {j \in Jobs : jobStatus[j] = "Failed"}
AttemptedJobs == {j \in Jobs : jobStatus[j] \in {"Succeeded", "Failed"}}
ReportedFailures == {errors[k] : k \in 1..Len(errors)}

\* C27: a batch without cancellation request in which at least one job
\* fails settles with 'N job(s) failed.', N being the number of failed
\* jobs, after every job was attempted and with every failed job listed
\* once in the failures reported; a batch without cancellation request in
\* which no job fails resolves.
C27_FailureReport ==
    (phase = "settled" /\ NoCancellationRequested) =>
        /\ AttemptedJobs = Jobs
        /\ FailedJobs = fails
        /\ fails # {} =>
              /\ outcome = "jobsFailed"
              /\ reported = Cardinality(FailedJobs)
              /\ reported = failed
              /\ ReportedFailures = FailedJobs
              /\ Len(errors) = Cardinality(FailedJobs)
        /\ fails = {} => outcome = "converted"

\* C27 witness: a batch of four jobs, two of them failing, settled with
\* '2 job(s) failed.' without any cancellation request.
C27_Witness ==
    /\ phase = "settled"
    /\ NoCancellationRequested
    /\ jobCount = 4
    /\ Cardinality(fails) = 2
    /\ outcome = "jobsFailed"
    /\ reported = 2


\* ============================================ BrowserRenderer.launchBrowser
MaxLaunchCalls == 2

\* attemptArgsList
AttemptArgsList(force) ==
    IF force THEN <<"constrainedArgs">> ELSE <<"baseArgs", "constrainedArgs">>

\* The errors chromium.launch rejects with: the executable does not exist, a
\* message holding 'failed to launch chromium', any other message.
LaunchErrors == {"executableMissing", "failedToLaunch", "other"}
\* isMissingExecutableError(error)
isMissingExecutableError(error) == error \in {"executableMissing", "failedToLaunch"}
\* launchOptions.executablePath ?? SVG2RASTER_CHROMIUM_PATH ??
\* chromium.executablePath(): the executable Playwright bundles, or one the
\* caller names
ExecutablePaths == {"bundled", "custom"}
\* What chromium.launch can settle with: without the executable it rejects
\* with the missing-executable error.
LaunchOutcomes(present) ==
    IF present THEN {"ok", "failedToLaunch", "other"} ELSE {"executableMissing"}

LaunchEvent(args, result) == [kind |-> "launch", args |-> args, outcome |-> result]
InstallEvent(ok) == [kind |-> "install", args |-> "", outcome |-> IF ok THEN "ok" ELSE "failed"]

InitLaunch ==
    /\ lbPc = "idle"
    /\ forceConstrained \in BOOLEAN
    /\ executablePath \in ExecutablePaths
    /\ chromiumPresent \in SUBSET ExecutablePaths
    /\ attemptIndex = 0
    /\ installAttempted = FALSE
    /\ lastError = None
    /\ lbLog = <<>>
    /\ lbCalls = 0

\* getBrowser() finds no browserPromise and calls launchBrowser(), which
\* runs up to the first chromium.launch.
CallLaunchBrowser ==
    /\ lbPc \in {"idle", "rejected"}
    /\ lbCalls < MaxLaunchCalls
    /\ lbCalls' = lbCalls + 1
    /\ lbPc' = "launching"
    /\ attemptIndex' = 1
    /\ installAttempted' = FALSE
    /\ lastError' = None
    /\ lbLog' = <<>>
    /\ UNCHANGED <<forceConstrained, executablePath, chromiumPresent>>
    /\ UNCHANGED nonLaunchVars

\* The for loop moves past candidate idx: the next chromium.launch, or, the
\* list being exhausted, `throw lastError`.
NextCandidate(idx) ==
    IF idx < Len(AttemptArgsList(forceConstrained))
      THEN /\ attemptIndex' = idx + 1
           /\ lbPc' = "launching"
      ELSE /\ attemptIndex' = idx
           /\ lbPc' = "rejected"

\* chromium.launch settles for the current candidate.
AttemptSettles(result) ==
    /\ lbPc = "launching"
    /\ result \in LaunchOutcomes(executablePath \in chromiumPresent)
    /\ lbLog' = Append(lbLog,
                  LaunchEvent(AttemptArgsList(forceConstrained)[attemptIndex], result))
    /\ IF result = "ok"
         THEN /\ lbPc' = "resolved"
              /\ UNCHANGED <<attemptIndex, installAttempted, lastError>>
         ELSE /\ lastError' = Some(result)
              /\ IF ~installAttempted /\ isMissingExecutableError(result)
                   THEN /\ installAttempted' = TRUE
                        /\ lbPc' = "installing"
                        /\ UNCHANGED attemptIndex
                   ELSE /\ NextCandidate(attemptIndex)
                        /\ UNCHANGED installAttempted
    /\ UNCHANGED <<forceConstrained, executablePath, chromiumPresent, lbCalls>>
    /\ UNCHANGED nonLaunchVars

\* installChromiumBrowser() settles: resolved, the bundled executable is there and
\* `continue` moves to the next candidate; rejected, the error leaves
\* launchBrowser.
InstallSettles(ok) ==
    /\ lbPc = "installing"
    /\ lbLog' = Append(lbLog, InstallEvent(ok))
    /\ IF ok
         THEN /\ chromiumPresent' = chromiumPresent \cup {"bundled"}
              /\ NextCandidate(attemptIndex)
              /\ UNCHANGED lastError
         ELSE /\ lbPc' = "rejected"
              /\ lastError' = Some("installFailed")
              /\ UNCHANGED <<chromiumPresent, attemptIndex>>
    /\ UNCHANGED <<forceConstrained, executablePath, installAttempted, lbCalls>>
    /\ UNCHANGED nonLaunchVars

NextLaunch ==
    \/ CallLaunchBrowser
    \/ \E result \in LaunchErrors \cup {"ok"} : AttemptSettles(result)
    \/ \E ok \in BOOLEAN : InstallSettles(ok)

InitSpecLaunch ==
    InitLaunch /\ SchedIdle /\ NamesIdle /\ JobsIdle /\ OptionsIdle /\ DeskIdle /\ ShutIdle
               /\ DimsIdle /\ RasterIdle /\ SigIdle /\ PresetsIdle /\ MoreIdle
SpecLaunch == InitSpecLaunch /\ [][NextLaunch]_vars

\* ------------------------------------------------- claims on launchBrowser
InstallsOf(log) == {k \in 1..Len(log) : log[k].kind = "install"}
InstallSucceeded(log) == \E k \in InstallsOf(log) : log[k].outcome = "ok"
LaunchedAfterInstall(log) ==
    \E k \in InstallsOf(log) : \E m \in (k + 1)..Len(log) : log[m].kind = "launch"

\* C28: in either mode, when a launch fails with a missing-executable error
\* and the install then succeeds, a launch is attempted again after the
\* install (the call resolving with a browser when that launch succeeds);
\* a call installs at most once.
C28_InstallThenRelaunch ==
    /\ Cardinality(InstallsOf(lbLog)) <= 1
    /\ (lbPc \in {"resolved", "rejected"} /\ InstallSucceeded(lbLog)) =>
          LaunchedAfterInstall(lbLog)

\* Without the executable, the default mode installed it, launched again
\* and resolved.
C28_DefaultModeCase ==
    /\ lbPc = "resolved"
    /\ ~forceConstrained
    /\ InstallSucceeded(lbLog)
    /\ LaunchedAfterInstall(lbLog)


\* ========================================================= the preset files
MaxPresetOps == 3

\* Names are sequences of characters; the options of an entry are its
\* width, time and background (the other fields of RenderOptions are kept or
\* dropped by normalizeRenderOptions in the same way).
Name_a == <<"a">>
Name_b == <<"b">>
Name_ab == <<"a", "b">>
RawNames == {Name_a, <<" ", "a", " ">>, Name_b, Name_ab}
Blank == <<" ">>
Options_thumb == [width |-> Some(128), time |-> None, background |-> Some(<<"#", "f">>)]
Options_hero == [width |-> Some(64), time |-> Some(0), background |-> None]
\* options as the desktop form can send them: a negative time, a background
\* of spaces
Options_unusable == [width |-> None, time |-> Some(-1), background |-> Some(Blank)]
SavedOptions == {Options_thumb, Options_hero, Options_unusable}
PresetEntry(name, options) == [name |-> name, options |-> options]

\* normalizeRenderOptions(input)
normalizeRenderOptions(input) ==
    [width      |-> input.width,
     time       |-> IF IsDefined(input.time) /\ ValueOf(input.time) >= 0
                      THEN input.time ELSE None,
     background |-> IF IsDefined(input.background) /\ Trim(ValueOf(input.background)) # <<>>
                      THEN input.background ELSE None]

\* normalizePresetEntry(raw): null (None here) for a blank name
normalizePresetEntry(raw) ==
    IF Trim(raw.name) = <<>> THEN None
    ELSE Some(PresetEntry(Trim(raw.name), normalizeRenderOptions(raw.options)))

\* a.localeCompare(b) < 0 on names of spaces and the letters a and b
CharRank(c) == IF c = " " THEN 0 ELSE IF c = "a" THEN 1 ELSE 2
RECURSIVE NameBefore(_, _)
NameBefore(a, b) ==
    IF b = <<>> THEN FALSE
    ELSE IF a = <<>> THEN TRUE
    ELSE IF Head(a) # Head(b) THEN CharRank(Head(a)) < CharRank(Head(b))
    ELSE NameBefore(Tail(a), Tail(b))

\* entries.sort((a, b) => a.name.localeCompare(b.name)): a stable sort
InsertByName(sorted, entry) ==
    LET after == {k \in 1..Len(sorted) : NameBefore(entry.name, sorted[k].name)}
        at    == IF after = {} THEN Len(sorted) + 1 ELSE Least(after)
    IN  SubSeq(sorted, 1, at - 1) \o <<entry>> \o SubSeq(sorted, at, Len(sorted))
RECURSIVE SortByName(_)
SortByName(entries) ==
    IF entries = <<>> THEN <<>>
    ELSE InsertByName(SortByName(SubSeq(entries, 1, Len(entries) - 1)),
                      entries[Len(entries)])

\* byName.set(entry.name, entry) on the Map's values in insertion order
SetByName(values, entry) ==
    IF \E k \in 1..Len(values) : values[k].name = entry.name
      THEN [k \in 1..Len(values) |->
               IF values[k].name = entry.name THEN entry ELSE values[k]]
      ELSE Append(values, entry)
RECURSIVE ByName(_, _)
ByName(rawEntries, values) ==
    IF rawEntries = <<>> THEN values
    ELSE LET entry == normalizePresetEntry(Head(rawEntries))
         IN  ByName(Tail(rawEntries),
                    IF IsDefined(entry) THEN SetByName(values, ValueOf(entry)) ELSE values)

\* A file's content: text that JSON.parse accepts, with its entries, or not.
Parsed(entries) == [parses |-> TRUE, entries |-> entries]
Malformed == [parses |-> FALSE, entries |-> <<>>]
\* readPresetEntries(filePath) on content that parses
readPresetEntries(content) == SortByName(ByName(content.entries, <<>>))

\* the filter keeps every entry (not in the code)
WithoutName_keepAll(entries, name) == entries
\* current.filter((preset) => preset.name !== name)
WithoutName(entries, name) == SelectSeq(entries, LAMBDA preset : preset.name # name)

\* getPresetSearchPaths(customPath)
\* the user's file before the project file (not in the code)
getPresetSearchPaths_userFirst(customPath) ==
    (IF IsDefined(customPath) THEN <<ValueOf(customPath)>> ELSE <<>>) \o <<"user", "project">>
getPresetSearchPaths(customPath) ==
    (IF IsDefined(customPath) THEN <<ValueOf(customPath)>> ELSE <<>>) \o <<"project", "user">>
PresetPaths == {"custom", "project", "user"}

\* findPresetFile(customPath): the first candidate that exists (optional)
findPresetFile(files, customPath) ==
    LET candidates == getPresetSearchPaths(customPath)
        existing   == {k \in 1..Len(candidates) : IsDefined(files[candidates[k]])}
    IN  IF existing = {} THEN None ELSE Some(candidates[Least(existing)])

\* What a load call settles with.
LoadNull == [kind |-> "null", path |-> "", presets |-> <<>>]
LoadThrew == [kind |-> "threw", path |-> "", presets |-> <<>>]
LoadCollection(path, presets) == [kind |-> "collection", path |-> path, presets |-> presets]
LoadPreset(path, preset) == [kind |-> "preset", path |-> path, presets |-> <<preset>>]

\* loadPresetCollection(customPath)
loadPresetCollection(files, customPath) ==
    LET presetFile == findPresetFile(files, customPath)
    IN  IF ~IsDefined(presetFile) THEN LoadNull
        ELSE LET content == ValueOf(files[ValueOf(presetFile)])
             IN  IF ~content.parses THEN LoadThrew
                 ELSE LoadCollection(ValueOf(presetFile), readPresetEntries(content))

\* loadPresetByName(name, customPath)
loadPresetByName(files, name, customPath) ==
    LET normalizedName == Trim(name)
        collection     == loadPresetCollection(files, customPath)
        matches        == {k \in 1..Len(collection.presets) :
                             collection.presets[k].name = normalizedName}
    IN  IF normalizedName = <<>> THEN LoadNull
        ELSE IF collection.kind # "collection" THEN collection
        ELSE IF matches = {} THEN LoadNull
        ELSE LoadPreset(collection.path, collection.presets[Least(matches)])

\* The reference map after a save and after a delete.
RefWithout(ref, name) == {entry \in ref : entry.name # name}
RefSaved(ref, name, options) == RefWithout(ref, name) \cup {PresetEntry(name, options)}

TwoPresets == <<PresetEntry(Name_a, Options_thumb), PresetEntry(Name_b, Options_hero)>>
OtherPresets == <<PresetEntry(Name_b, Options_thumb)>>

\* One preset file at the custom path, empty or with two presets; the
\* project file absent or holding another preset.
InitPresets ==
    /\ \E own \in {<<>>, TwoPresets} : \E project \in {None, Some(Parsed(OtherPresets))} :
          /\ presetFiles = [path \in PresetPaths |->
                               IF path = "custom" THEN Some(Parsed(own))
                               ELSE IF path = "project" THEN project ELSE None]
          /\ presetRef = {own[k] : k \in 1..Len(own)}
    /\ presetOps = 0
    /\ loadCall = None
    /\ loadResult = None

\* savePresetEntry(entry, { targetPath: custom }): ensurePresetFilePath
\* creates the file when it is missing, then the entries are read, the entry
\* of that name replaced, the list sorted and written.
SavePresetEntry(name, options) ==
    /\ presetOps < MaxPresetOps
    /\ presetOps' = presetOps + 1
    /\ LET content == IF IsDefined(presetFiles["custom"])
                        THEN ValueOf(presetFiles["custom"]) ELSE Parsed(<<>>)
       IN  IF ~content.parses
             THEN /\ presetFiles' = presetFiles
                  /\ UNCHANGED presetRef
             ELSE LET current   == readPresetEntries(content)
                      sanitized == PresetEntry(Trim(name), normalizeRenderOptions(options))
                      deduped   == WithoutName(current, sanitized.name)
                      updated   == SortByName(Append(deduped, sanitized))
                  IN  /\ presetFiles' = [presetFiles EXCEPT !["custom"] = Some(Parsed(updated))]
                      /\ presetRef' = RefSaved(presetRef, Trim(name), options)
    /\ loadCall' = None
    /\ loadResult' = None
    /\ UNCHANGED nonPresetVars

\* deletePresetEntry(name, { targetPath: custom }): readFile rejects when
\* the file is missing or does not parse; otherwise the entries without that
\* name are written.
DeletePresetEntry(name) ==
    /\ presetOps < MaxPresetOps
    /\ presetOps' = presetOps + 1
    /\ IF ~IsDefined(presetFiles["custom"]) \/ ~ValueOf(presetFiles["custom"]).parses
         THEN UNCHANGED <<presetFiles, presetRef>>
         ELSE LET current == readPresetEntries(ValueOf(presetFiles["custom"]))
                  updated == WithoutName(current, Trim(name))
              IN  /\ presetFiles' = [presetFiles EXCEPT !["custom"] = Some(Parsed(updated))]
                  /\ presetRef' = RefWithout(presetRef, Trim(name))
    /\ loadCall' = None
    /\ loadResult' = None
    /\ UNCHANGED nonPresetVars

\* A call loadPresetCollection(customPath)
LoadPresetCollection(customPath) ==
    /\ loadCall' = Some([fn |-> "collection", name |-> <<>>, customPath |-> customPath])
    /\ loadResult' = Some(loadPresetCollection(presetFiles, customPath))
    /\ UNCHANGED <<presetFiles, presetRef, presetOps>>
    /\ UNCHANGED nonPresetVars

\* A call loadPresetByName(name, customPath)
LoadPresetByName(name, customPath) ==
    /\ loadCall' = Some([fn |-> "byName", name |-> name, customPath |-> customPath])
    /\ loadResult' = Some(loadPresetByName(presetFiles, name, customPath))
    /\ UNCHANGED <<presetFiles, presetRef, presetOps>>
    /\ UNCHANGED nonPresetVars

NextPresets ==
    \/ \E name \in RawNames : \E options \in SavedOptions : SavePresetEntry(name, options)
    \/ \E name \in RawNames : DeletePresetEntry(name)
    \/ LoadPresetCollection(Some("custom"))
    \/ \E name \in RawNames : LoadPresetByName(name, Some("custom"))

InitSpecPresets ==
    InitPresets /\ SchedIdle /\ NamesIdle /\ JobsIdle /\ OptionsIdle /\ DeskIdle /\ ShutIdle
                /\ DimsIdle /\ RasterIdle /\ SigIdle /\ LaunchIdle /\ MoreIdle
SpecPresets == InitSpecPresets /\ [][NextPresets]_vars

\* ---------------------------------------------- claims on the preset file
Loaded(fn) == IsDefined(loadCall) /\ ValueOf(loadCall).fn = fn
LoadedPresets == ValueOf(loadResult).presets
LoadedSet == {LoadedPresets[k] : k \in 1..Len(LoadedPresets)}
DistinctAndSorted(presets) ==
    \A i \in 1..Len(presets) : \A j \in 1..Len(presets) :
        i < j => NameBefore(presets[i].name, presets[j].name)
RefNames == {entry.name : entry \in presetRef}
RefOptions(name) == (CHOOSE entry \in presetRef : entry.name = name).options
\* The options of an entry as they come back: a time below 0 and a
\* background of spaces are not kept.
KeptOptions(options) ==
    [options EXCEPT !.time = IF options.time \in {Some(-1)} THEN None ELSE @,
                    !.background = IF options.background = Some(Blank) THEN None ELSE @]
KeptRef == {PresetEntry(entry.name, KeptOptions(entry.options)) : entry \in presetRef}

\* C29 as stated: after saves and deletes on the file, loadPresetCollection
\* returns exactly the entries of the reference map, with distinct names in
\* order, and loadPresetByName(name) returns the options last saved under
\* the trimmed name.
C29_Original ==
    /\ Loaded("collection") =>
          /\ ValueOf(loadResult).kind = "collection"
          /\ LoadedSet = presetRef
          /\ DistinctAndSorted(LoadedPresets)
    /\ (Loaded("byName") /\ Trim(ValueOf(loadCall).name) \in RefNames) =>
          /\ ValueOf(loadResult).kind = "preset"
          /\ LoadedPresets[1].options = RefOptions(Trim(ValueOf(loadCall).name))

\* C29 amended: the same, the options of an entry coming back as
\* normalizeRenderOptions keeps them (a field with an unusable value, such
\* as a negative time or a background of spaces, is dropped).
C29_FileIsMap ==
    /\ Loaded("collection") =>
          /\ ValueOf(loadResult).kind = "collection"
          /\ ValueOf(loadResult).path = "custom"
          /\ LoadedSet = KeptRef
          /\ DistinctAndSorted(LoadedPresets)
    /\ Loaded("byName") =>
          IF Trim(ValueOf(loadCall).name) \in RefNames
            THEN /\ ValueOf(loadResult).kind = "preset"
                 /\ LoadedPresets[1].name = Trim(ValueOf(loadCall).name)
                 /\ LoadedPresets[1].options =
                        KeptOptions(RefOptions(Trim(ValueOf(loadCall).name)))
            ELSE ValueOf(loadResult) = LoadNull

\* C29 witness: after three calls, one of them a delete and one a save that
\* replaced an entry, the file held two presets and they were loaded.
C29_Witness ==
    /\ Loaded("collection")
    /\ presetOps = 3
    /\ Len(LoadedPresets) = 2
    /\ LoadedPresets[1] = PresetEntry(Name_a, Options_hero)
    /\ LoadedPresets[2] = PresetEntry(Name_ab, Options_thumb)


\* ====================================================== the preset lookup
\* What a candidate path can hold: nothing, an empty list, presets, text
\* that does not parse.
FileContents ==
    {None, Some(Parsed(<<>>)), Some(Parsed(TwoPresets)), Some(Parsed(OtherPresets)),
     Some(Malformed)}
RequestedNames == RawNames \cup {Blank, <<>>}
CustomPaths == {None, Some("custom")}

InitLookup ==
    /\ presetFiles \in [PresetPaths -> FileContents]
    /\ presetRef = {}
    /\ presetOps = 0
    /\ loadCall = None
    /\ loadResult = None

NextLookup ==
    \/ \E customPath \in CustomPaths : LoadPresetCollection(customPath)
    \/ \E name \in RequestedNames : \E customPath \in CustomPaths :
          LoadPresetByName(name, customPath)

InitSpecLookup ==
    InitLookup /\ SchedIdle /\ NamesIdle /\ JobsIdle /\ OptionsIdle /\ DeskIdle /\ ShutIdle
               /\ DimsIdle /\ RasterIdle /\ SigIdle /\ LaunchIdle /\ MoreIdle
SpecLookup == InitSpecLookup /\ [][NextLookup]_vars

\* -------------------------------------------------- claims on the lookup
Exists(path) == IsDefined(presetFiles[path])
\* The file the claim says is read: the custom path when one is given and
\* exists, else the project file when it exists, else the user's file when
\* it exists.
FirstExisting(customPath) ==
    IF IsDefined(customPath) /\ Exists("custom") THEN Some("custom")
    ELSE IF Exists("project") THEN Some("project")
    ELSE IF Exists("user") THEN Some("user")
    ELSE None
EntriesIn(path) ==
    LET entries == ValueOf(presetFiles[path]).entries
    IN  {entries[k] : k \in 1..Len(entries)}

\* C30: loadPresetByName reads the first file that exists among the custom
\* path, the project file and the user's file, and only that file: it
\* returns that file's entry of the trimmed name, and null when that file
\* has no such entry, when no candidate exists or when the name is blank.
C30_FirstExistingFile ==
    Loaded("byName") =>
        LET call   == ValueOf(loadCall)
            result == ValueOf(loadResult)
            first  == FirstExisting(call.customPath)
        IN  IF Trim(call.name) = <<>> \/ ~IsDefined(first) THEN result = LoadNull
            ELSE IF ~ValueOf(presetFiles[ValueOf(first)]).parses THEN TRUE
            ELSE IF \E entry \in EntriesIn(ValueOf(first)) : entry.name = Trim(call.name)
              THEN /\ result.kind = "preset"
                   /\ result.path = ValueOf(first)
                   /\ result.presets[1] \in EntriesIn(ValueOf(first))
                   /\ result.presets[1].name = Trim(call.name)
              ELSE result = LoadNull

\* C30 witness: without a custom path, the project file and the user's file
\* both holding a preset b, the one of the project file was returned.
C30_Witness ==
    /\ Loaded("byName")
    /\ ValueOf(loadCall).customPath = None
    /\ Trim(ValueOf(loadCall).name) = Name_b
    /\ presetFiles["project"] = Some(Parsed(OtherPresets))
    /\ presetFiles["user"] = Some(Parsed(TwoPresets))
    /\ ValueOf(loadResult) = LoadPreset("project", PresetEntry(Name_b, Options_thumb))

\* The first existing file lacking the name, null was returned although a
\* later candidate holds it.
C30_OnlyThatFile ==
    /\ Loaded("byName")
    /\ ValueOf(loadCall).customPath = Some("custom")
    /\ Trim(ValueOf(loadCall).name) = Name_a
    /\ presetFiles["custom"] = Some(Parsed(OtherPresets))
    /\ presetFiles["project"] = Some(Parsed(TwoPresets))
    /\ ValueOf(loadResult) = LoadNull


\* ============================== the desktop main process's convert handler
\* ipcMain.handle('svg2raster:convert') and ('svg2raster:cancel') of the
\* desktop main process, with every batch the handler has accepted running
\* its own convertFiles on its own ConversionContext. Requests arrive over
\* IPC at any time and in any order; each handler runs to its next await.
MaxBatches == 2
MaxBatchInputs == 2
Batches == 1..MaxBatches

\* A batch between the handler's `activeConversion = {...}` and its finally.
InProgress(b) == convPc[b] \in {"mkdir", "rendering", "writing", "shutdown"}
Requested(b) == convPc[b] # "none"

\* `activeConversion && !activeConversion.cancelled`, and that guard as a
\* test of the reference alone (not in the code)
Busy_whileSet(active, isCancelled) == active # NoBatch
Busy(active, isCancelled) == active # NoBatch /\ ~isCancelled[active]

InitConv ==
    /\ activeConversion = NoBatch
    /\ convPc = [b \in Batches |-> "none"]
    /\ convInputs = [b \in Batches |-> 0]
    /\ convCancelled = [b \in Batches |-> FALSE]
    /\ convIndex = [b \in Batches |-> 0]
    /\ convEvents = [b \in Batches |-> <<>>]
    /\ convError = [b \in Batches |-> "none"]
    /\ cancelMark = [b \in Batches |-> None]

\* successes and failures.length of batch b, as its events tell them
ConvTally(b, status) ==
    Len(SelectSeq(convEvents[b], LAMBDA ev : ev.kind = "progress" /\ ev.status = status))

\* The head of batch b's for loop at position idx, after the events sent so
\* far: `if (conversion.cancelled) break`, else 'started' and the render.
ConvLoopHead(b, idx, events) ==
    IF idx > convInputs[b] \/ convCancelled[b]
      THEN /\ convPc' = [convPc EXCEPT ![b] = "shutdown"]
           /\ convIndex' = convIndex
           /\ convEvents' = [convEvents EXCEPT ![b] = events]
      ELSE /\ convPc' = [convPc EXCEPT ![b] = "rendering"]
           /\ convIndex' = [convIndex EXCEPT ![b] = idx]
           /\ convEvents' = [convEvents EXCEPT
                               ![b] = Append(events, ProgressEvent(idx, "started"))]

\* The handler's `finally { activeConversion = null; }`
ConvFinally == activeConversion' = NoBatch

\* A convert request with n inputs after normalizeRequest: the guard, then
\* `activeConversion = { cancelled: false, ... }` and convertFiles up to
\* `await fs.mkdir(...)`; with no inputs convertFiles throws at once and the
\* finally block runs.
ConvertRequest(n) ==
    /\ \E b \in Batches : ~Requested(b)
    /\ LET b == Least({c \in Batches : ~Requested(c)})
       IN  IF Busy(activeConversion, convCancelled)
             THEN /\ convPc' = [convPc EXCEPT ![b] = "rejected"]
                  /\ convError' = [convError EXCEPT ![b] = "busy"]
                  /\ UNCHANGED <<activeConversion, convInputs>>
           ELSE IF n = 0
             THEN /\ convPc' = [convPc EXCEPT ![b] = "rejected"]
                  /\ convError' = [convError EXCEPT ![b] = "noInputs"]
                  /\ ConvFinally
                  /\ UNCHANGED convInputs
             ELSE /\ convPc' = [convPc EXCEPT ![b] = "mkdir"]
                  /\ convInputs' = [convInputs EXCEPT ![b] = n]
                  /\ activeConversion' = b
                  /\ UNCHANGED convError
    /\ UNCHANGED <<convCancelled, convIndex, convEvents, cancelMark>>
    /\ UNCHANGED nonConvVars

\* fs.mkdir of batch b settles: a rejection leaves convertFiles and the
\* handler; otherwise the loop starts.
ConvMkdirSettles(b, ok) ==
    /\ convPc[b] = "mkdir"
    /\ IF ok
         THEN /\ ConvLoopHead(b, 1, convEvents[b])
              /\ UNCHANGED <<convError, activeConversion>>
         ELSE /\ convPc' = [convPc EXCEPT ![b] = "rejected"]
              /\ convError' = [convError EXCEPT ![b] = "mkdir"]
              /\ ConvFinally
              /\ UNCHANGED <<convIndex, convEvents>>
    /\ UNCHANGED <<convInputs, convCancelled, cancelMark>>
    /\ UNCHANGED nonConvVars

\* The render of batch b's current input settles: on success fs.writeFile is
\* awaited, on failure the catch block sends 'failed' and the loop goes on.
ConvRenderSettles(b, ok) ==
    /\ convPc[b] = "rendering"
    /\ IF ok
         THEN /\ convPc' = [convPc EXCEPT ![b] = "writing"]
              /\ UNCHANGED <<convIndex, convEvents>>
         ELSE ConvLoopHead(b, convIndex[b] + 1,
                  Append(convEvents[b], ProgressEvent(convIndex[b], "failed")))
    /\ UNCHANGED <<activeConversion, convInputs, convCancelled, convError, cancelMark>>
    /\ UNCHANGED nonConvVars

\* fs.writeFile of batch b settles: 'succeeded' or the catch block, then the
\* loop head.
ConvWriteSettles(b, ok) ==
    /\ convPc[b] = "writing"
    /\ ConvLoopHead(b, convIndex[b] + 1,
           Append(convEvents[b],
                  ProgressEvent(convIndex[b], IF ok THEN "succeeded" ELSE "failed")))
    /\ UNCHANGED <<activeConversion, convInputs, convCancelled, convError, cancelMark>>
    /\ UNCHANGED nonConvVars

\* `await shutdownRenderer().catch(() => undefined)` of batch b settles: the
\* completion is sent, convertFiles throws when cancelled and returns
\* otherwise, and the handler's finally block runs.
ConvShutdownSettles(b) ==
    /\ convPc[b] = "shutdown"
    /\ convEvents' = [convEvents EXCEPT
           ![b] = Append(@, CompleteEvent(ConvTally(b, "succeeded"),
                                          ConvTally(b, "failed"), convCancelled[b]))]
    /\ IF convCancelled[b]
         THEN /\ convPc' = [convPc EXCEPT ![b] = "rejected"]
              /\ convError' = [convError EXCEPT ![b] = "cancelled"]
         ELSE /\ convPc' = [convPc EXCEPT ![b] = "resolved"]
              /\ UNCHANGED convError
    /\ ConvFinally
    /\ UNCHANGED <<convInputs, convCancelled, convIndex, cancelMark>>
    /\ UNCHANGED nonConvVars

\* A cancel request: `if (activeConversion) activeConversion.cancelled = true`.
\* cancelMark notes, for every batch running at that moment, how many events
\* it had sent. (A request that finds nothing running changes nothing.)
CancelRequest ==
    /\ \E b \in Batches : InProgress(b)
    /\ convCancelled' = IF activeConversion # NoBatch
                          THEN [convCancelled EXCEPT ![activeConversion] = TRUE]
                          ELSE convCancelled
    /\ cancelMark' = [b \in Batches |->
                        IF InProgress(b) /\ cancelMark[b] = None
                          THEN Some(Len(convEvents[b]))
                          ELSE cancelMark[b]]
    /\ UNCHANGED <<activeConversion, convPc, convInputs, convIndex, convEvents,
                   convError>>
    /\ UNCHANGED nonConvVars

NextConv ==
    \/ \E n \in 0..MaxBatchInputs : ConvertRequest(n)
    \/ \E b \in Batches : \E ok \in BOOLEAN : ConvMkdirSettles(b, ok)
    \/ \E b \in Batches : \E ok \in BOOLEAN : ConvRenderSettles(b, ok)
    \/ \E b \in Batches : \E ok \in BOOLEAN : ConvWriteSettles(b, ok)
    \/ \E b \in Batches : ConvShutdownSettles(b)
    \/ CancelRequest

InitSpecConv ==
    InitConv /\ SchedIdle /\ NamesIdle /\ JobsIdle /\ OptionsIdle /\ DeskIdle /\ ShutIdle
             /\ DimsIdle /\ RasterIdle /\ SigIdle /\ LaunchIdle /\ PresetsIdle
             /\ SanIdle /\ NormIdle /\ PoolIdle
SpecConv == InitSpecConv /\ [][NextConv]_vars


\* ---------------------------------------- claims on the convert handler
Settled(b) == convPc[b] \in {"resolved", "rejected"} /\ convError[b] # "busy"
IsStarted(ev) == ev.kind = "progress" /\ ev.status = "started"
StartedAfter(b, count) ==
    \E k \in (count + 1)..Len(convEvents[b]) : IsStarted(convEvents[b][k])
\* Every input of batch b that was started has been reported.
AllReported(b) ==
    \A k \in 1..Len(convEvents[b]) :
        IsStarted(convEvents[b][k]) =>
            \E l \in (k + 1)..Len(convEvents[b]) :
                /\ convEvents[b][l].kind = "progress"
                /\ convEvents[b][l].id = convEvents[b][k].id
                /\ convEvents[b][l].status \in {"succeeded", "failed"}
CancelledCompletion(b) ==
    /\ convEvents[b] # <<>>
    /\ LET last == convEvents[b][Len(convEvents[b])]
       IN  last.kind = "complete" /\ last.cancelled

\* C31: a batch that was running when a cancel request arrived sends no
\* further started event, and when its convert call has settled, every
\* started input has been reported, the completion event carries
\* cancelled = true and the call has rejected with 'Conversion cancelled.'.
C31_CancelStopsBatch ==
    \A b \in Batches :
        IsDefined(cancelMark[b]) =>
            /\ ~StartedAfter(b, ValueOf(cancelMark[b]))
            /\ Settled(b) =>
                  /\ AllReported(b)
                  /\ CancelledCompletion(b)
                  /\ convPc[b] = "rejected"
                  /\ convError[b] = "cancelled"

\* C35: at most one batch is in progress, and activeConversion refers to the
\* batch in progress.
C35_OneBatchInProgress ==
    /\ Cardinality({b \in Batches : InProgress(b)}) <= 1
    /\ \A b \in Batches : InProgress(b) => activeConversion = b


\* ========================================================= the sanitizers
\* sanitizeNameHint and sanitizeFileStem applied to one string and one
\* fallback. The strings tried: every string of up to MaxHintLen characters
\* over a letter, a dot, a hyphen, a blank and a star, and the name hints of
\* the reservation component, with ' My Icon.svg '.
MaxHintLen == 3
HintAlphabet == {"a", ".", "-", " ", "*"}
MyIconHint == <<" ", "M", "y", " ", "I", "c", "o", "n", ".", "s", "v", "g", " ">>
SanValues ==
    UNION {[1..n -> HintAlphabet] : n \in 0..MaxHintLen} \cup HintInputs \cup {MyIconHint}
SanFallbacks == {<<"f", "a", "l", "l", "b", "a", "c", "k">>, <<"f", "i", "l", "e", "-", "1">>}

InitSan ==
    /\ sanPc = "input"
    /\ sanValue \in SanValues
    /\ sanFallback \in SanFallbacks
    /\ sanNameHint = None
    /\ sanFileStem = None

\* sanitizeNameHint(value, fallback) and sanitizeFileStem(value, fallback)
Sanitize ==
    /\ sanPc = "input"
    /\ sanPc' = "done"
    /\ sanNameHint' = Some(sanitizeNameHint(sanValue, sanFallback))
    /\ sanFileStem' = Some(sanitizeFileStem(sanValue, sanFallback))
    /\ UNCHANGED <<sanValue, sanFallback>>
    /\ UNCHANGED nonSanVars

NextSan == Sanitize

InitSpecSan ==
    InitSan /\ SchedIdle /\ NamesIdle /\ JobsIdle /\ OptionsIdle /\ DeskIdle /\ ShutIdle
            /\ DimsIdle /\ RasterIdle /\ SigIdle /\ LaunchIdle /\ PresetsIdle /\ ConvIdle
            /\ NormIdle /\ PoolIdle
SpecSan == InitSpecSan /\ [][NextSan]_vars

\* ------------------------------------------------ claims on the sanitizers
\* The part of s between its first and its last character outside `strip`.
Between(s, strip) ==
    LET keep == {i \in 1..Len(s) : s[i] \notin strip}
    IN  IF keep = {} THEN <<>>
        ELSE SubSeq(s, Least(keep), CHOOSE i \in keep : \A j \in keep : j <= i)
\* The positions of t that hold an allowed character or open a run of other
\* characters, and t read at those positions with '-' for every run.
RunHeads(t) ==
    {i \in 1..Len(t) : t[i] \in AllowedChars \/ i = 1 \/ t[i - 1] \in AllowedChars}
RunsCollapsed(t) ==
    [k \in 1..Cardinality(RunHeads(t)) |->
        LET i == CHOOSE h \in RunHeads(t) :
                     Cardinality({j \in RunHeads(t) : j <= h}) = k
        IN  IF t[i] \in AllowedChars THEN t[i] ELSE "-"]
IsCleanStem(r) ==
    /\ r # <<>>
    /\ \A i \in 1..Len(r) : r[i] \in AllowedChars
    /\ r[1] # "-"
    /\ r[Len(r)] # "-"
NothingMatches(value) == \A i \in 1..Len(value) : value[i] \notin AllowedChars
SanitizedAsClaimed(r) ==
    /\ r = sanFallback \/ IsCleanStem(r)
    /\ r # sanFallback => r = Between(RunsCollapsed(Between(sanValue, Whitespace)), {"-"})
    /\ NothingMatches(sanValue) => r = sanFallback
    /\ sanValue = MyIconHint =>
           r = <<"M", "y", "-", "I", "c", "o", "n", ".", "s", "v", "g">>

\* C32: sanitizeNameHint and sanitizeFileStem return the fallback or a
\* non-empty string of characters of [A-Za-z0-9._-] that is the trimmed
\* input with every run of other characters collapsed to one '-' and with no
\* '-' at either end; an empty or fully non-matching input yields the
\* fallback, and ' My Icon.svg ' yields 'My-Icon.svg'.
C32_Sanitized ==
    sanPc = "done" =>
        /\ SanitizedAsClaimed(ValueOf(sanNameHint))
        /\ SanitizedAsClaimed(ValueOf(sanFileStem))
\* A string with a run of two other characters between two kept ones has
\* been sanitized to something else than the fallback.
C32_Witness ==
    /\ sanPc = "done"
    /\ sanValue = <<"a", " ", " ", "b", "*", "c">>
    /\ ValueOf(sanNameHint) = <<"a", "-", "b", "-", "c">>
    /\ ValueOf(sanFileStem) = <<"a", "-", "b", "-", "c">>


\* ======================================================== normalizeInputs
\* File paths are a flag (absolute or not) and segments; the last segment is
\* the file's name without its extension. The process runs in /cwd.
MaxNormInputs == 3
Seg_dot == <<".">>
Seg_cwd == <<"c", "w", "d">>
Seg_assets == <<"a", "s", "s", "e", "t", "s">>
Seg_logo == <<"l", "o", "g", "o">>
Seg_icon == <<"i", "c", "o", "n">>

\* path.resolve(p)
pathResolve(p) ==
    LET segs == SelectSeq(p.segs, LAMBDA seg : seg # Seg_dot)
    IN  [absolute |-> TRUE, segs |-> IF p.absolute THEN segs ELSE <<Seg_cwd>> \o segs]
\* path.parse(p).name
pathName(p) == IF p.segs = <<>> THEN <<>> ELSE p.segs[Len(p.segs)]

FileInput(isAbsolute, segs, label, nameHint) ==
    [type |-> "file", path |-> Some([absolute |-> isAbsolute, segs |-> segs]),
     svg |-> <<>>, label |-> label, nameHint |-> nameHint]
InlineInput(svg, label, nameHint) ==
    [type |-> "inline", path |-> None, svg |-> svg, label |-> label, nameHint |-> nameHint]
\* './assets/logo.svg', '/cwd/assets/logo.svg', 'assets/logo.svg', 'icon.svg';
\* '<svg></svg>', '   ', ''
InputSources ==
    { FileInput(FALSE, <<Seg_dot, Seg_assets, Seg_logo>>, Some("Logo"), Seg_logo),
      FileInput(TRUE, <<Seg_cwd, Seg_assets, Seg_logo>>, Some("Duplicate Logo"), Seg_logo),
      FileInput(FALSE, <<Seg_assets, Seg_logo>>, None, <<>>),
      FileInput(FALSE, <<Seg_icon>>, None, <<"*">>),
      InlineInput(<<"<", "s", "v", "g", ">">>, Some("Inline"), <<"I", " ", "n">>),
      InlineInput(<<" ", " ", " ">>, Some("Empty"), <<"e">>),
      InlineInput(<<>>, None, <<>>) }
WithId(input, id) ==
    [id |-> id, type |-> input.type, path |-> input.path, svg |-> input.svg,
     label |-> input.label, nameHint |-> input.nameHint]

\* seenFilePaths.has(absolute), and a set that forgets (not in the code)
SeenBefore_never(seenFilePaths, absolute) == FALSE
SeenBefore(seenFilePaths, absolute) == absolute \in seenFilePaths

\* The loop of normalizeInputs from position k on, with seenFilePaths and
\* the list built so far.
RECURSIVE NormalizeFrom(_, _, _, _)
NormalizeFrom(inputs, k, seenFilePaths, list) ==
    IF k > Len(inputs) THEN list
    ELSE LET input == inputs[k]
         IN  IF input.type = "file"
               THEN LET absolute == pathResolve(ValueOf(input.path))
                    IN  IF SeenBefore(seenFilePaths, absolute)
                          THEN NormalizeFrom(inputs, k + 1, seenFilePaths, list)
                          ELSE NormalizeFrom(inputs, k + 1, seenFilePaths \cup {absolute},
                                   Append(list,
                                       [input EXCEPT
                                          !.path = Some(absolute),
                                          !.label = IF IsDefined(input.label)
                                                      THEN input.label
                                                      ELSE Some("absolute"),
                                          !.nameHint =
                                              sanitizeNameHint(input.nameHint,
                                                  IF pathName(absolute) # <<>>
                                                    THEN pathName(absolute)
                                                    ELSE <<"f", "i", "l", "e">>)]))
             ELSE IF input.type = "inline"
               THEN IF Trim(input.svg) = <<>>
                      THEN NormalizeFrom(inputs, k + 1, seenFilePaths, list)
                      ELSE NormalizeFrom(inputs, k + 1, seenFilePaths,
                               Append(list,
                                   [input EXCEPT
                                      !.label = IF IsDefined(input.label)
                                                  THEN input.label
                                                  ELSE Some("Inline SVG"),
                                      !.nameHint =
                                          sanitizeNameHint(input.nameHint,
                                              <<"i", "n", "l", "i", "n", "e">>)]))
             ELSE NormalizeFrom(inputs, k + 1, seenFilePaths, list)
normalizeInputs(inputs) == NormalizeFrom(inputs, 1, {}, <<>>)

InitNorm ==
    /\ normPc = "input"
    /\ normInputs \in UNION {[1..n -> InputSources] : n \in 0..MaxNormInputs}
    /\ normalized = <<>>

\* normalizeInputs(request.inputs), the inputs carrying their positions as ids
NormalizeInputs ==
    /\ normPc = "input"
    /\ normPc' = "done"
    /\ normalized' = normalizeInputs([k \in 1..Len(normInputs) |-> WithId(normInputs[k], k)])
    /\ UNCHANGED normInputs
    /\ UNCHANGED nonNormVars

NextNorm == NormalizeInputs

InitSpecNorm ==
    InitNorm /\ SchedIdle /\ NamesIdle /\ JobsIdle /\ OptionsIdle /\ DeskIdle /\ ShutIdle
             /\ DimsIdle /\ RasterIdle /\ SigIdle /\ LaunchIdle /\ PresetsIdle /\ ConvIdle
             /\ SanIdle /\ PoolIdle
SpecNorm == InitSpecNorm /\ [][NextNorm]_vars

\* ---------------------------------------------- claims on normalizeInputs
\* How often the input at position k appears in the returned list.
TimesKept(k) == Cardinality({m \in 1..Len(normalized) : normalized[m].id = k})
SameFile(j, k) ==
    /\ normInputs[j].type = "file"
    /\ normInputs[k].type = "file"
    /\ pathResolve(ValueOf(normInputs[j].path)) = pathResolve(ValueOf(normInputs[k].path))
IsBlankMarkup(svg) == \A i \in 1..Len(svg) : svg[i] \in Whitespace
\* What the claim says is dropped: a later file input of the same absolute
\* path, a blank inline input.
ToBeDropped(k) ==
    \/ \E j \in 1..(k - 1) : SameFile(j, k)
    \/ normInputs[k].type = "inline" /\ IsBlankMarkup(normInputs[k].svg)

\* C33: normalizeInputs returns the inputs it retains in their input order,
\* drops a file input exactly when an earlier file input resolves to the
\* same absolute path, drops an inline input exactly when its markup is
\* blank, and returns every other input exactly once.
C33_Normalized ==
    normPc = "done" =>
        /\ \A m, n \in 1..Len(normalized) : m < n => normalized[m].id < normalized[n].id
        /\ \A k \in 1..Len(normInputs) :
               TimesKept(k) = IF ToBeDropped(k) THEN 0 ELSE 1
\* The test's case: a relative and an absolute spelling of one file, then a
\* blank inline input; only the first is kept.
C33_Witness ==
    /\ normPc = "done"
    /\ Len(normInputs) = 3
    /\ normInputs[1].type = "file" /\ ~normInputs[1].path = normInputs[2].path
    /\ SameFile(1, 2)
    /\ normInputs[3].type = "inline" /\ normInputs[3].svg = <<" ", " ", " ">>
    /\ Len(normalized) = 1
    /\ normalized[1].id = 1


\* ------------------------------------- claims on the desktop batch's stems
\* The inputs up to id whose sanitized hint equals that of input id.
SameHintUpTo(id) ==
    {j \in 1..id : sanitizeNameHint(deskHints[j], OutputFallback)
                     = sanitizeNameHint(deskHints[id], OutputFallback)}
\* C34: the input that is the n-th in input order with its sanitized hint s
\* is written under s when n = 1 and under s-n when n >= 2, whatever the
\* render outcomes of the inputs before it.
C34_StemByInputOrder ==
    \A k \in 1..Len(deskOutputs) :
        LET id == deskOutputs[k].id
            s  == sanitizeNameHint(deskHints[id], OutputFallback)
            n  == Cardinality(SameHintUpTo(id))
        IN  deskOutputs[k].stem = IF n = 1 THEN s ELSE Numbered(s, n)


\* ---------------------------- claims on cancellation and renderer shutdown
\* C36: a batch whose signal was aborted while a worker had not yet returned
\* settles with the cancellation error and its count of processed jobs, also
\* when every job had been claimed before the abort and all of them
\* succeeded or some failed; the failure error is not what it settles with.
C36_AbortAlwaysCancels ==
    (phase = "settled" /\ abortedUndrained) =>
        /\ outcome = "cancelled"
        /\ outcome # "jobsFailed"
        /\ reported = Cardinality(AttemptedJobs)
\* C36 witness: the abort came when all three jobs were claimed, every job
\* succeeded, and the batch settled as cancelled after 3 of 3.
C36_Witness ==
    /\ phase = "settled"
    /\ abortedUndrained
    /\ jobCount = 3
    /\ claimedAtCancel = 3
    /\ completed = 3
    /\ outcome = "cancelled"
    /\ reported = 3
\* A batch aborted with all jobs claimed, one of which failed, settled as
\* cancelled and not with '1 job(s) failed.'.
C36_FailureNotReported ==
    /\ phase = "settled"
    /\ abortedUndrained
    /\ claimedAtCancel = jobCount
    /\ Len(errors) = 1
    /\ outcome = "cancelled"

WorkersStarted == phase \in {"awaiting", "shutdown", "settled"} /\ started > 0
\* What the batch settles with when the renderer's shutdown plays no part.
OutcomeOfJobs ==
    IF cancelled THEN "cancelled"
    ELSE IF FailedJobs # {} THEN "jobsFailed"
    ELSE "converted"
C39_State ==
    /\ shutdownCalls <= 1
    /\ WorkersStarted =>
          /\ phase = "awaiting" => shutdownCalls = 0
          /\ phase \in {"shutdown", "settled"} => shutdownCalls = 1 /\ AllReturned
          /\ phase = "settled" => outcome = OutcomeOfJobs
    /\ ~WorkersStarted => shutdownCalls = 0
C39_Step ==
    shutdownCalls' # shutdownCalls =>
        /\ AllReturned
        /\ outcome = "pending" /\ outcome' = "pending"
        /\ phase' = "shutdown"
\* C39: once the workers have been started, shutdownRenderer is called once,
\* when every worker has returned and before executeCli settles, whether the
\* batch ends converted, with failures or cancelled; whether that call fails
\* or not, the batch settles with what its jobs and its cancellation decide.
C39_ShutdownOncePerBatch == []C39_State /\ [][C39_Step]_vars
\* C39 witness: shutdownRenderer failed after a batch with a failed job, and
\* the batch settled with '1 job(s) failed.'.
C39_Witness ==
    /\ phase = "settled"
    /\ shutdownFailed
    /\ shutdownCalls = 1
    /\ Cardinality(fails) = 1
    /\ outcome = "jobsFailed"
\* shutdownRenderer failed after a batch that was cancelled, and after one in
\* which every job succeeded.
C39_FailedAfterCancel == phase = "settled" /\ shutdownFailed /\ outcome = "cancelled"
C39_FailedAfterSuccess == phase = "settled" /\ shutdownFailed /\ outcome = "converted"


\* --------------------------------------- claims on the square completion
NoUsableRatio == ~IsDefined(ParsedViewBox) \/ IsZero(ValueOf(ParsedViewBox).height)
OnlyWidthKnown == IsDefined(KnownWidth) /\ ~IsDefined(KnownHeight)
OnlyHeightKnown == ~IsDefined(KnownWidth) /\ IsDefined(KnownHeight)
ViewBoxGivesWidth ==
    IsDefined(ParsedViewBox) /\ TruthyNumber(Some(ValueOf(ParsedViewBox).width))
ViewBoxGivesHeight ==
    IsDefined(ParsedViewBox) /\ TruthyNumber(Some(ValueOf(ParsedViewBox).height))
\* Exactly one side is known, there is no usable ratio and the viewBox has
\* no size for the other side.
OneSideOnly ==
    /\ NoUsableRatio
    /\ \/ OnlyWidthKnown /\ ~ViewBoxGivesHeight
       \/ OnlyHeightKnown /\ ~ViewBoxGivesWidth
KnownSide == IF OnlyWidthKnown THEN KnownWidth ELSE KnownHeight
FallbackUsed ==
    ResultWidth = Whole(DEFAULT_VIEWPORT_SIZE) \/ ResultHeight = Whole(DEFAULT_VIEWPORT_SIZE)
FallbackOnlyWithoutSides ==
    (Derived /\ FallbackUsed) => ~IsDefined(KnownWidth) /\ ~IsDefined(KnownHeight)

\* C37 as stated: with exactly one side known, no usable ratio and no
\* viewBox size for the other side, both sides of the result are the known
\* side (rounded, at least 1); 512 appears only when neither side is known.
C37_Original ==
    /\ (Derived /\ OneSideOnly) =>
          /\ ResultWidth = RoundedSide(ValueOf(KnownSide))
          /\ ResultHeight = RoundedSide(ValueOf(KnownSide))
    /\ FallbackOnlyWithoutSides
\* The viewBox has a size for the known side, which is 0 or not a number.
KnownSideReplaced ==
    /\ ~TruthyNumber(KnownSide)
    /\ IF OnlyWidthKnown THEN ViewBoxGivesWidth ELSE ViewBoxGivesHeight
\* C37 amended: in that case the result is square; its side is the known
\* side (rounded, at least 1), unless the known side is 0 or not a number and
\* the viewBox has a size for that side, which is then taken; 512 appears
\* only when neither side is known.
C37_SquareFromKnownSide ==
    /\ (Derived /\ OneSideOnly) =>
          /\ ResultWidth = ResultHeight
          /\ ~KnownSideReplaced => ResultWidth = RoundedSide(ValueOf(KnownSide))
          /\ KnownSideReplaced =>
                ResultWidth = RoundedSide(IF OnlyWidthKnown
                                            THEN ValueOf(ParsedViewBox).width
                                            ELSE ValueOf(ParsedViewBox).height)
    /\ FallbackOnlyWithoutSides
\* C37 witness: width="200" alone, without usable ratio and without a
\* viewBox height, gave {200, 200}.
C37_Witness ==
    /\ Derived
    /\ OneSideOnly
    /\ NoOverrides
    /\ dimSvg.width = Length(Whole(200), "")
    /\ ResultIs(200, 200)
\* An override width of 0 with a viewBox 100 wide and 0 high gave {100, 100}.
C37_ZeroOverride ==
    /\ Derived
    /\ OneSideOnly
    /\ KnownSideReplaced
    /\ dimOverrides.width = Some(Whole(0))
    /\ ResultIs(100, 100)


\* ================================ one BrowserRenderer under concurrent calls
\* render() and close() of one BrowserRenderer, called at any time by any
\* number of callers. A launch is what one launchBrowser() call does; the
\* launches are numbered in the order in which getBrowser starts them.
MaxRenders == 3
MaxCloses == 2
RenderIds == 1..MaxRenders
CloseIds == 1..MaxCloses

InitPool ==
    /\ memoLaunch = NoLaunch
    /\ launches = <<>>
    /\ renderCalls = [r \in RenderIds |-> [pc |-> "idle", launch |-> NoLaunch]]
    /\ closeCalls = [c \in CloseIds |-> [pc |-> "idle", launch |-> NoLaunch]]

\* The launch getBrowser returns the promise of: the memoized one, or a new
\* one.
AwaitedLaunch(memo, count) == IF memo = NoLaunch THEN count + 1 ELSE memo

\* render(job) up to `await this.getBrowser()`: getBrowser starts a launch
\* when browserPromise is not set and returns browserPromise.
RenderCall(r) ==
    /\ renderCalls[r].pc = "idle"
    /\ \A q \in 1..(r - 1) : renderCalls[q].pc # "idle"
    /\ LET l == AwaitedLaunch(memoLaunch, Len(launches))
       IN  /\ launches' = IF l > Len(launches) THEN Append(launches, "pending")
                          ELSE launches
           /\ memoLaunch' = l
           /\ renderCalls' =
                 [renderCalls EXCEPT
                    ![r] = [pc |-> IF l <= Len(launches) /\ launches[l] # "pending"
                                     THEN "rendering" ELSE "awaitBrowser",
                            launch |-> l]]
    /\ UNCHANGED closeCalls
    /\ UNCHANGED nonPoolVars

\* launchBrowser() of launch l resolves: every render() awaiting it goes on
\* with browser.newContext, every close() awaiting it calls browser.close().
LaunchResolves(l) ==
    /\ l \in 1..Len(launches)
    /\ launches[l] = "pending"
    /\ launches' = [launches EXCEPT ![l] = "open"]
    /\ renderCalls' =
          [r \in RenderIds |->
              IF renderCalls[r].pc = "awaitBrowser" /\ renderCalls[r].launch = l
                THEN [renderCalls[r] EXCEPT !.pc = "rendering"]
                ELSE renderCalls[r]]
    /\ closeCalls' =
          [c \in CloseIds |->
              IF closeCalls[c].pc = "awaitPromise" /\ closeCalls[c].launch = l
                THEN [closeCalls[c] EXCEPT !.pc = "closing"]
                ELSE closeCalls[c]]
    /\ UNCHANGED memoLaunch
    /\ UNCHANGED nonPoolVars

\* launchBrowser() of launch l rejects: the catch handler of getBrowser
\* clears browserPromise, every render() awaiting it rejects, every close()
\* awaiting it warns, clears browserPromise and returns.
LaunchRejects(l) ==
    /\ l \in 1..Len(launches)
    /\ launches[l] = "pending"
    /\ launches' = [launches EXCEPT ![l] = "failed"]
    /\ memoLaunch' = NoLaunch
    /\ renderCalls' =
          [r \in RenderIds |->
              IF renderCalls[r].pc = "awaitBrowser" /\ renderCalls[r].launch = l
                THEN [renderCalls[r] EXCEPT !.pc = "failed"]
                ELSE renderCalls[r]]
    /\ closeCalls' =
          [c \in CloseIds |->
              IF closeCalls[c].pc = "awaitPromise" /\ closeCalls[c].launch = l
                THEN [closeCalls[c] EXCEPT !.pc = "returned"]
                ELSE closeCalls[c]]
    /\ UNCHANGED nonPoolVars

\* The rest of render() of call r settles: it can succeed only on a browser
\* that is open.
RenderReturns(r, ok) ==
    /\ renderCalls[r].pc = "rendering"
    /\ ok => launches[renderCalls[r].launch] = "open"
    /\ renderCalls' = [renderCalls EXCEPT ![r].pc = IF ok THEN "done" ELSE "failed"]
    /\ UNCHANGED <<memoLaunch, launches, closeCalls>>
    /\ UNCHANGED nonPoolVars

\* close() up to its first await that suspends: it returns at once without
\* browserPromise, awaits a pending launch, or calls browser.close() on the
\* browser of a settled one.
CloseCall(c) ==
    /\ closeCalls[c].pc = "idle"
    /\ \A q \in 1..(c - 1) : closeCalls[q].pc # "idle"
    /\ closeCalls' =
          [closeCalls EXCEPT
             ![c] = IF memoLaunch = NoLaunch
                      THEN [pc |-> "returned", launch |-> NoLaunch]
                    ELSE IF launches[memoLaunch] = "pending"
                      THEN [pc |-> "awaitPromise", launch |-> memoLaunch]
                    ELSE [pc |-> "closing", launch |-> memoLaunch]]
    /\ UNCHANGED <<memoLaunch, launches, renderCalls>>
    /\ UNCHANGED nonPoolVars

\* browser.close() of call c settles (resolved or rejected): the browser is
\* closed and the finally block clears browserPromise.
CloseReturnsFor(c) ==
    /\ closeCalls[c].pc = "closing"
    /\ launches' = [launches EXCEPT ![closeCalls[c].launch] = "closed"]
    /\ memoLaunch' = NoLaunch
    /\ closeCalls' = [closeCalls EXCEPT ![c].pc = "returned"]
    /\ UNCHANGED renderCalls
    /\ UNCHANGED nonPoolVars

NextPool ==
    \/ \E r \in RenderIds : RenderCall(r)
    \/ \E l \in 1..MaxRenders : LaunchResolves(l)
    \/ \E l \in 1..MaxRenders : LaunchRejects(l)
    \/ \E r \in RenderIds : \E ok \in BOOLEAN : RenderReturns(r, ok)
    \/ \E c \in CloseIds : CloseCall(c)
    \/ \E c \in CloseIds : CloseReturnsFor(c)

InitSpecPool ==
    InitPool /\ SchedIdle /\ NamesIdle /\ JobsIdle /\ OptionsIdle /\ DeskIdle /\ ShutIdle
             /\ DimsIdle /\ RasterIdle /\ SigIdle /\ LaunchIdle /\ PresetsIdle /\ ConvIdle
             /\ SanIdle /\ NormIdle
SpecPool == InitSpecPool /\ [][NextPool]_vars

\* ------------------------------------------- claims on the BrowserRenderer
PendingLaunches == {l \in 1..Len(launches) : launches[l] = "pending"}
AwaitingBrowser == {r \in RenderIds : renderCalls[r].pc = "awaitBrowser"}
ClosesInProgress == {c \in CloseIds : closeCalls[c].pc \in {"awaitPromise", "closing"}}

\* C38: the render calls that wait for a browser all wait for one launch,
\* the memoized one, and no second launch is pending beside it; a launch
\* that failed has failed every render that waited for it and is no longer
\* memoized; once no close() is in progress, no closed browser is memoized
\* (so the next render launches a new one).
C38_OneSharedLaunch ==
    /\ Cardinality(PendingLaunches) <= 1
    /\ \A r \in AwaitingBrowser : renderCalls[r].launch = memoLaunch
    /\ \A l \in 1..Len(launches) :
          launches[l] = "failed" =>
              /\ memoLaunch # l
              /\ \A r \in RenderIds :
                    renderCalls[r].launch = l => renderCalls[r].pc = "failed"
    /\ (ClosesInProgress = {} /\ memoLaunch # NoLaunch) =>
          launches[memoLaunch] \in {"pending", "open"}

=============================================================================
